---- MODULE Spec2Model ----
(***************************************************************************)
(* SkillForge: registry, intent router and runtime.                        *)
(*                                                                         *)
(* Text is modelled by TLA+ strings (a character is a string of length 1), *)
(* scores are fixed-point numbers in units of 1/SCALE so that the          *)
(* Math.log weights of the router can be added to the integer weights.     *)
(***************************************************************************)
EXTENDS Integers, Sequences, FiniteSets, TLC

\* ------------------------------------------------------------------------
\* Text primitives (JavaScript String / RegExp operations used by the code)
\* ------------------------------------------------------------------------

CharAt(s, i) == SubSeq(s, i, i)

\* The characters \s matches, as far as the texts here hold them.
WhitespaceChars == {" ", "\t", "\n"}

UpperToLower ==
  [c \in {"A","B","C","D","E","F","G","H","I","J","K","L","M",
          "N","O","P","Q","R","S","T","U","V","W","X","Y","Z"} |->
     CASE c = "A" -> "a" [] c = "B" -> "b" [] c = "C" -> "c" [] c = "D" -> "d"
       [] c = "E" -> "e" [] c = "F" -> "f" [] c = "G" -> "g" [] c = "H" -> "h"
       [] c = "I" -> "i" [] c = "J" -> "j" [] c = "K" -> "k" [] c = "L" -> "l"
       [] c = "M" -> "m" [] c = "N" -> "n" [] c = "O" -> "o" [] c = "P" -> "p"
       [] c = "Q" -> "q" [] c = "R" -> "r" [] c = "S" -> "s" [] c = "T" -> "t"
       [] c = "U" -> "u" [] c = "V" -> "v" [] c = "W" -> "w" [] c = "X" -> "x"
       [] c = "Y" -> "y" [] c = "Z" -> "z"]

LowerLetters ==
  {"a","b","c","d","e","f","g","h","i","j","k","l","m",
   "n","o","p","q","r","s","t","u","v","w","x","y","z"}

Digits == {"0","1","2","3","4","5","6","7","8","9"}

\* [a-z0-9]: the complement is the separator class of tokenize's split.
AlnumChars == LowerLetters \cup Digits

\* \w of a RegExp without the i or u flag: [A-Za-z0-9_].
WordChars == LowerLetters \cup DOMAIN UpperToLower \cup Digits \cup {"_"}

RECURSIVE toLowerCase(_)
toLowerCase(s) ==
  IF Len(s) = 0 THEN s
  ELSE LET c == CharAt(s, 1)
       IN (IF c \in DOMAIN UpperToLower THEN UpperToLower[c] ELSE c)
            \o toLowerCase(SubSeq(s, 2, Len(s)))

\* String.prototype.includes
includes(s, sub) ==
  \E i \in 1..(Len(s) - Len(sub) + 1) : SubSeq(s, i, i + Len(sub) - 1) = sub

\* String.prototype.startsWith
startsWith(s, prefix) ==
  Len(prefix) <= Len(s) /\ SubSeq(s, 1, Len(prefix)) = prefix

IsWordAt(s, i) == i >= 1 /\ i <= Len(s) /\ CharAt(s, i) \in WordChars

\* \b at the gap in front of position p (p in 1..Len(s)+1).
WordBoundary(s, p) == IsWordAt(s, p - 1) # IsWordAt(s, p)

\* new RegExp(`\\b${escapeRegex(word)}\\b`).test(s): escapeRegex makes every
\* character of word match itself, so the pattern is the literal word between
\* two word boundaries.
wordBoundaryTest(word, s) ==
  \E i \in 1..(Len(s) - Len(word) + 1) :
     /\ SubSeq(s, i, i + Len(word) - 1) = word
     /\ WordBoundary(s, i)
     /\ WordBoundary(s, i + Len(word))

STOP_WORDS ==
  {"the", "and", "for", "are", "but", "not", "you", "all", "can", "had",
   "her", "was", "one", "our", "out", "has", "have", "from", "they", "been",
   "said", "each", "she", "which", "their", "will", "way", "about", "use",
   "when", "what", "your", "how", "this", "that", "with", "via", "using",
   "into", "also", "than", "them", "then", "its", "over", "such", "more"}

MIN_TOKEN_LEN == 3

\* split(/[^a-z0-9]+/): the maximal runs of [a-z0-9]; the empty strings split
\* returns at either end are dropped by tokenize's length filter.
RECURSIVE splitAlnum(_, _, _)
splitAlnum(s, i, cur) ==
  IF i > Len(s) THEN (IF cur = "" THEN <<>> ELSE <<cur>>)
  ELSE IF CharAt(s, i) \in AlnumChars
       THEN splitAlnum(s, i + 1, cur \o CharAt(s, i))
       ELSE (IF cur = "" THEN <<>> ELSE <<cur>>) \o splitAlnum(s, i + 1, "")

tokenize(text) ==
  SelectSeq(splitAlnum(toLowerCase(text), 1, ""),
            LAMBDA w : Len(w) >= MIN_TOKEN_LEN /\ w \notin STOP_WORDS)

SeqToSet(q) == {q[i] : i \in 1..Len(q)}

\* ------------------------------------------------------------------------
\* Skill definitions the model draws from
\* ------------------------------------------------------------------------

\* skill.engine is optional: NoEngine is the absent field.
NoEngine == "undefined"

\* A skill object is identified by its id (the JavaScript reference); name,
\* description, keywords, tags and engine are its fields.  An absent keywords
\* or tags array is the empty sequence: the code skips both alike.
Skill ==
  [id \in {"time", "greet", "echo", "weather", "git", "time2",
           "tabbed", "mail", "mdtides", "mdnotes", "noname", "nodesc"} |->
     CASE id = "time" ->
            [name |-> "time", description |-> "skill that tells the current time",
             keywords |-> <<"time", "clock">>, tags |-> <<>>, engine |-> NoEngine]
       [] id = "greet" ->
            [name |-> "greet", description |-> "skill that greets you",
             keywords |-> <<"hi", "good morning">>, tags |-> <<"greeting">>,
             engine |-> "direct"]
       [] id = "echo" ->
            [name |-> "echo", description |-> "skill that echoes back the input",
             keywords |-> <<"hi", "repeat">>, tags |-> <<"dev">>, engine |-> "direct"]
       [] id = "weather" ->
            [name |-> "weather", description |-> "skill for the weather forecast",
             keywords |-> <<>>, tags |-> <<"forecast">>, engine |-> "claude-code"]
       [] id = "git" ->
            [name |-> "git", description |-> "skill for git rebase",
             keywords |-> <<>>, tags |-> <<"git", "dev">>, engine |-> "codex"]
       [] id = "time2" ->
            [name |-> "time", description |-> "skill for world time zones",
             keywords |-> <<"zone">>, tags |-> <<>>, engine |-> "gemini"]
       [] id = "tabbed" ->
            [name |-> "tabbed", description |-> "skill with tabs",
             keywords |-> <<"good\tmorning", "Clock">>, tags |-> <<>>,
             engine |-> NoEngine]
       [] id = "mail" ->
            [name |-> "mail", description |-> "skill that sends email and mails github",
             keywords |-> <<"send", "send mail", "mail">>, tags |-> <<"mail", "send">>,
             engine |-> NoEngine]
       [] id = "mdtides" ->
            [name |-> "mdtides", description |-> "skill about tides",
             keywords |-> <<>>, tags |-> <<>>, engine |-> "claude-code"]
       [] id = "mdnotes" ->
            [name |-> "mdnotes", description |-> "skill about notes",
             keywords |-> <<>>, tags |-> <<>>, engine |-> "codex"]
       [] id = "noname" ->
            [name |-> "", description |-> "skill without a name",
             keywords |-> <<>>, tags |-> <<>>, engine |-> NoEngine]
       [] id = "nodesc" ->
            [name |-> "nodesc", description |-> "",
             keywords |-> <<>>, tags |-> <<>>, engine |-> NoEngine]]

\* The skills the registry and runtime clients register.
SkillIds == {"time", "greet", "echo", "weather", "git", "time2"}

SkillNames == {Skill[id].name : id \in SkillIds}

\* The utterances callers submit.
Inputs ==
  {"what time is it", "hi there", "this thing", "Weather forecasts",
   "hey good morning", "git skill"}

\* The utterances passed to scoreSkill directly.
ScoreInputs ==
  {"this thing", "please Send mail", "xgood\tmorningx", "good\tmorning clock",
   "Timeless time", "GIT dev forecasts", "Weather forecasts",
   "emails email email git gith rebasing"}

\* The texts the router tokenizes and lowercases: descriptions and utterances.
\* Both conversions are computed once per text and looked up afterwards.
Texts == {Skill[id].description : id \in DOMAIN Skill} \cup Inputs \cup ScoreInputs

TokenizedTexts == [t \in Texts |-> tokenize(t)]

LoweredTexts == [t \in Texts |-> toLowerCase(t)]

tokensOf(text) == IF text \in Texts THEN TokenizedTexts[text] ELSE tokenize(text)

lowerOf(text) == IF text \in Texts THEN LoweredTexts[text] ELSE toLowerCase(text)

\* ------------------------------------------------------------------------
\* Router
\* ------------------------------------------------------------------------

\* Scores are kept in units of 1/SCALE.
SCALE == 1000

NAME_WEIGHT == 20
KEYWORD_WEIGHT == 10
TAG_WEIGHT == 5
FUZZY_MIN_LEN == 4
IDF_MIN_SKILLS == 5

\* Math.log(docCount / freq) in units of 1/SCALE, rounded to nearest, for
\* 1 <= freq <= docCount <= 8.
LnScaled ==
     <<1,1>> :> 0 @@
     <<2,1>> :> 693 @@ <<2,2>> :> 0 @@
     <<3,1>> :> 1099 @@ <<3,2>> :> 405 @@ <<3,3>> :> 0 @@
     <<4,1>> :> 1386 @@ <<4,2>> :> 693 @@ <<4,3>> :> 288 @@ <<4,4>> :> 0 @@
     <<5,1>> :> 1609 @@ <<5,2>> :> 916 @@ <<5,3>> :> 511 @@ <<5,4>> :> 223 @@ <<5,5>> :> 0 @@
     <<6,1>> :> 1792 @@ <<6,2>> :> 1099 @@ <<6,3>> :> 693 @@ <<6,4>> :> 405 @@ <<6,5>> :> 182 @@ <<6,6>> :> 0 @@
     <<7,1>> :> 1946 @@ <<7,2>> :> 1253 @@ <<7,3>> :> 847 @@ <<7,4>> :> 560 @@ <<7,5>> :> 336 @@ <<7,6>> :> 154 @@ <<7,7>> :> 0 @@
     <<8,1>> :> 2079 @@ <<8,2>> :> 1386 @@ <<8,3>> :> 981 @@ <<8,4>> :> 693 @@ <<8,5>> :> 470 @@ <<8,6>> :> 288 @@ <<8,7>> :> 134 @@ <<8,8>> :> 0

\* The words of buildIdf's wordDocFreq map.
idfWords(skills) ==
  UNION {SeqToSet(tokensOf(Skill[skills[i]].description)) : i \in 1..Len(skills)}

\* wordDocFreq.get(word): the number of list entries whose description has word.
docFreq(skills, word) ==
  Cardinality({i \in 1..Len(skills) :
                 word \in SeqToSet(tokensOf(Skill[skills[i]].description))})

buildIdf(skills) ==
  [word \in idfWords(skills) |-> LnScaled[<<Len(skills), docFreq(skills, word)>>]]

\* The optional idf argument: present carries the map, absent is undefined.
NoIdf == [present |-> FALSE]
SomeIdf(map) == [present |-> TRUE, map |-> map]

\* Phase 0: skill name as a whole word.
nameScore(skill, lower) ==
  IF wordBoundaryTest(toLowerCase(Skill[skill].name), lower)
  THEN NAME_WEIGHT * SCALE ELSE 0

\* Every keyword matched as a substring.
keywordMatchesSubstring(kw, lower) == includes(lower, toLowerCase(kw))

keywordMatches(kw, lower) ==
  LET kwLower == toLowerCase(kw)
  IN IF includes(kwLower, " ")
     THEN includes(lower, kwLower)
     ELSE wordBoundaryTest(kwLower, lower)

\* Phase 1: every matching keyword adds its weight.
RECURSIVE keywordScore(_, _)
keywordScore(keywords, lower) ==
  IF keywords = <<>> THEN 0
  ELSE (IF keywordMatches(Head(keywords), lower) THEN KEYWORD_WEIGHT * SCALE ELSE 0)
         + keywordScore(Tail(keywords), lower)

\* Phase 2: every tag matching as a whole word adds its weight.
RECURSIVE tagScore(_, _)
tagScore(tags, lower) ==
  IF tags = <<>> THEN 0
  ELSE (IF wordBoundaryTest(toLowerCase(Head(tags)), lower) THEN TAG_WEIGHT * SCALE ELSE 0)
         + tagScore(Tail(tags), lower)

descMatches(word, descTokens) ==
  \/ word \in SeqToSet(descTokens)
  \/ \E k \in 1..Len(descTokens) :
        \/ Len(word) >= FUZZY_MIN_LEN /\ startsWith(descTokens[k], word)
        \/ Len(descTokens[k]) >= FUZZY_MIN_LEN /\ startsWith(word, descTokens[k])

\* A word the map lacks weighs nothing.
tokenWeightOfMapOnly(word, idf) ==
  IF idf.present
  THEN (IF word \in DOMAIN idf.map THEN idf.map[word] ELSE 0)
  ELSE 1 * SCALE

\* idf ? (idf.get(word) ?? 1) : 1
tokenWeight(word, idf) ==
  IF idf.present /\ word \in DOMAIN idf.map THEN idf.map[word] ELSE 1 * SCALE

\* Phase 3: every matching utterance token adds its weight.
RECURSIVE descScore(_, _, _)
descScore(inputTokens, descTokens, idf) ==
  IF inputTokens = <<>> THEN 0
  ELSE (IF descMatches(Head(inputTokens), descTokens)
        THEN tokenWeight(Head(inputTokens), idf) ELSE 0)
         + descScore(Tail(inputTokens), descTokens, idf)

\* scoreSkill returning at the first phase that matches.
scoreSkillFirstPhase(skill, input, idf) ==
  LET lower == lowerOf(input)
      name == nameScore(skill, lower)
      keyword == keywordScore(Skill[skill].keywords, lower)
      tag == tagScore(Skill[skill].tags, lower)
  IN IF name > 0 THEN name
     ELSE IF keyword > 0 THEN keyword
     ELSE IF tag > 0 THEN tag
     ELSE descScore(tokensOf(input), tokensOf(Skill[skill].description), idf)

scoreSkill(skill, input, idf) ==
  LET lower == lowerOf(input)
  IN nameScore(skill, lower)
       + keywordScore(Skill[skill].keywords, lower)
       + tagScore(Skill[skill].tags, lower)
       + descScore(tokensOf(input), tokensOf(Skill[skill].description), idf)

\* route passing no idf whatever the number of skills.
routeIdfNone(skills) == NoIdf

\* The idf route passes to scoreSkill.
routeIdf(skills) ==
  IF Len(skills) >= IDF_MIN_SKILLS THEN SomeIdf(buildIdf(skills)) ELSE NoIdf

\* The loop of route with the test score >= 0 in place of score > 0.
RECURSIVE collectMatchesNonNegative(_, _, _)
collectMatchesNonNegative(skills, input, idf) ==
  IF skills = <<>> THEN <<>>
  ELSE LET score == scoreSkill(Head(skills), input, idf)
       IN (IF score >= 0 THEN <<[skill |-> Head(skills), score |-> score]>> ELSE <<>>)
            \o collectMatchesNonNegative(Tail(skills), input, idf)

\* The loop of route: the positive-scoring skills in input order.
RECURSIVE collectMatches(_, _, _)
collectMatches(skills, input, idf) ==
  IF skills = <<>> THEN <<>>
  ELSE LET score == scoreSkill(Head(skills), input, idf)
       IN (IF score > 0 THEN <<[skill |-> Head(skills), score |-> score]>> ELSE <<>>)
            \o collectMatches(Tail(skills), input, idf)

\* A sort step that puts m in front of the entries it ties with.
RECURSIVE insertMatchBeforeTies(_, _)
insertMatchBeforeTies(sorted, m) ==
  IF sorted = <<>> THEN <<m>>
  ELSE IF Head(sorted).score <= m.score THEN <<m>> \o sorted
       ELSE <<Head(sorted)>> \o insertMatchBeforeTies(Tail(sorted), m)

\* One step of a stable sort under the comparator (a, b) => b.score - a.score:
\* m goes behind every entry that does not score less than m.
RECURSIVE insertMatch(_, _)
insertMatch(sorted, m) ==
  IF sorted = <<>> THEN <<m>>
  ELSE IF Head(sorted).score < m.score THEN <<m>> \o sorted
       ELSE <<Head(sorted)>> \o insertMatch(Tail(sorted), m)

\* Array.prototype.sort with that comparator (stable since ES2019).
RECURSIVE sortMatches(_)
sortMatches(matches) ==
  IF matches = <<>> THEN <<>>
  ELSE insertMatch(sortMatches(SubSeq(matches, 1, Len(matches) - 1)),
                   matches[Len(matches)])

route(skills, input) ==
  sortMatches(collectMatches(skills, input, routeIdf(skills)))

\* routeBest's null.
NoSkill == "null"

\* routeBest taking the last match instead of the first.
routeBestLast(skills, input) ==
  LET matches == route(skills, input)
  IN IF Len(matches) > 0 THEN matches[Len(matches)].skill ELSE NoSkill

\* routeBest settling for the first skill of the list when nothing matches.
routeBestOrFirst(skills, input) ==
  LET matches == route(skills, input)
  IN IF Len(matches) > 0 THEN matches[1].skill
     ELSE IF Len(skills) > 0 THEN skills[1] ELSE NoSkill

routeBest(skills, input) ==
  LET matches == route(skills, input)
  IN IF Len(matches) > 0 THEN matches[1].skill ELSE NoSkill

\* ------------------------------------------------------------------------
\* State
\* ------------------------------------------------------------------------

VARIABLES
  skills,       \* SkillRegistry.skills: the Map's entries in insertion order
  lastOp,       \* the latest call on the registry: argument, outcome, Map before it
  held,         \* the array a registry client got from list() and kept
  history,      \* the registrations a registry client has seen succeed
  calls,        \* the handle / handleOrThrow calls, one record per caller
  now,          \* performance.now()
  agentRunner,  \* whether import() of the agent-runner module resolves
  routeCall,    \* a caller of the exported route / routeBest: arguments and results
  scoreCall,    \* a caller of the exported scoreSkill: arguments and result
  defineCall,   \* a caller of defineSkill: the definition passed and the outcome
  cmdCall       \* a caller of the run-command skill's execute

vars ==
  <<skills, lastOp, held, history, calls, now, agentRunner, routeCall,
    scoreCall, defineCall, cmdCall>>

\* The callers of scoreSkill, defineSkill and run-command before they call.
ScoreIdle == [pc |-> "idle"]
DefineIdle == [pc |-> "idle"]
CmdIdle == [pc |-> "idle"]

\* ------------------------------------------------------------------------
\* SkillRegistry
\* ------------------------------------------------------------------------

\* Map.prototype.get's undefined.
Undefined == "undefined"

\* Map.prototype.has / get / set / delete / values on a sequence of entries.
mapHas(m, key) == \E i \in 1..Len(m) : m[i].key = key

\* get answering with the first entry, whatever the key.
mapGetFirstEntry(m, key) == IF Len(m) > 0 THEN m[1].value ELSE Undefined

mapGet(m, key) ==
  IF mapHas(m, key) THEN m[CHOOSE i \in 1..Len(m) : m[i].key = key].value ELSE Undefined

\* set putting a new key in front of the entries.
mapSetFront(m, key, value) ==
  IF \E i \in 1..Len(m) : m[i].key = key
  THEN [i \in 1..Len(m) |-> IF m[i].key = key THEN [key |-> key, value |-> value] ELSE m[i]]
  ELSE <<[key |-> key, value |-> value]>> \o m

mapSet(m, key, value) ==
  IF mapHas(m, key)
  THEN [i \in 1..Len(m) |-> IF m[i].key = key THEN [key |-> key, value |-> value] ELSE m[i]]
  ELSE Append(m, [key |-> key, value |-> value])

mapDelete(m, key) == SelectSeq(m, LAMBDA e : e.key # key)

mapValues(m) == [i \in 1..Len(m) |-> m[i].value]

\* register storing the skill before it throws on a taken name.
registerReplaces(m, skill) ==
  [skills |-> mapSet(m, Skill[skill].name, skill),
   result |-> IF mapHas(m, Skill[skill].name) THEN "DuplicateSkillName" ELSE "ok"]

\* register without the has() check, on a store that appends.
registerAppends(m, skill) ==
  [skills |-> Append(m, [key |-> Skill[skill].name, value |-> skill]), result |-> "ok"]

\* register(skill): the Map afterwards and whether the call threw.
register(m, skill) ==
  IF mapHas(m, Skill[skill].name)
  THEN [skills |-> m, result |-> "DuplicateSkillName"]
  ELSE [skills |-> mapSet(m, Skill[skill].name, skill), result |-> "ok"]

\* get(name)
get(m, name) == mapGet(m, name)

\* list(): a fresh array of the Map's values.
list(m) == mapValues(m)

\* s.tags?.includes(tag): an exact element of the skill's tags.
hasTag(skill, tag) == \E i \in 1..Len(Skill[skill].tags) : Skill[skill].tags[i] = tag

\* filterByTag without its filter.
filterByTagAll(m, tag) == list(m)

\* filterByTag(tag): this.list().filter(...)
filterByTag(m, tag) == SelectSeq(list(m), LAMBDA id : hasTag(id, tag))

\* remove clearing the Map instead of deleting one key.
removeClears(m, name) ==
  [skills |-> <<>>, result |-> \E i \in 1..Len(m) : m[i].key = name]

\* remove(name): the Map afterwards and the boolean returned.
remove(m, name) == [skills |-> mapDelete(m, name), result |-> mapHas(m, name)]

\* get size()
size(m) == Len(m)

\* listSkills()
listSkills(m) == [i \in 1..Len(list(m)) |-> Skill[list(m)[i]].name]

\* A read of the registry: the Map afterwards, which none of get, list,
\* filterByTag, size and listSkills writes, and the value returned.
queryWriting(m, op, arg) ==
  [skills |-> mapDelete(m, arg), result |-> Undefined]

query(m, op, arg) ==
  [skills |-> m,
   result |-> CASE op = "get" -> get(m, arg)
                [] op = "list" -> list(m)
                [] op = "filterByTag" -> filterByTag(m, arg)
                [] op = "size" -> size(m)
                [] op = "listSkills" -> listSkills(m)]

\* Most skills a registry client keeps registered at a time.
MaxRegistered == 3

\* Most skills kept registered with a runtime at a time.
MaxRuntimeSkills == 2

\* Names passed to remove: the registered ones and one that never is.
RemoveNames == SkillNames \cup {"nope"}

NoOp == [op |-> "none", arg |-> "", result |-> "", before |-> <<>>]

\* The array a client got from list() and kept; taken is FALSE before that.
NoArray == [taken |-> FALSE, items |-> <<>>]

\* list() handing out the Map's own storage.
listSharesStore == TRUE

\* Whether the array list() returns shares its storage with the Map:
\* [...this.skills.values()] builds a new array.
listShares == FALSE

\* What the client has seen happen: the number of registrations that
\* succeeded, for every name the number of the latest one still in force
\* (0 when the name is not registered) and the skill object it stored.
NoHistory ==
  [clock |-> 0, stamp |-> [n \in SkillNames |-> 0],
   latest |-> [n \in SkillNames |-> Undefined]]

\* Most registrations a client is followed through.
MaxRegistrations == 3

\* The kept array after the Map became m: the same array, whose contents
\* follow the Map only if it shares the Map's storage.
heldAfter(m) ==
  IF held.taken /\ listShares THEN [held EXCEPT !.items = list(m)] ELSE held

\* A registry client calls registry.register(skill).
Register(s) ==
  /\ mapHas(skills, Skill[s].name) \/ Len(skills) < MaxRegistered
  /\ mapHas(skills, Skill[s].name) \/ history.clock < MaxRegistrations
  /\ LET r == register(skills, s)
         name == Skill[s].name
     IN /\ skills' = r.skills
        /\ lastOp' = [op |-> "register", arg |-> s, result |-> r.result, before |-> skills]
        /\ held' = heldAfter(r.skills)
        /\ history' = IF r.result = "ok"
                      THEN [clock |-> history.clock + 1,
                            stamp |-> [history.stamp EXCEPT ![name] = history.clock + 1],
                            latest |-> [history.latest EXCEPT ![name] = s]]
                      ELSE history
  /\ UNCHANGED <<calls, now, agentRunner, scoreCall, defineCall, cmdCall, routeCall>>

\* A registry client calls registry.remove(name).
Remove(name) ==
  /\ LET r == remove(skills, name)
     IN /\ skills' = r.skills
        /\ lastOp' = [op |-> "remove", arg |-> name, result |-> r.result, before |-> skills]
        /\ held' = heldAfter(r.skills)
        /\ history' = IF name \in SkillNames
                      THEN [history EXCEPT !.stamp[name] = 0, !.latest[name] = Undefined]
                      ELSE history
  /\ UNCHANGED <<calls, now, agentRunner, scoreCall, defineCall, cmdCall, routeCall>>

\* Tags passed to filterByTag: the ones some skill carries and one none does.
QueryTags == {"dev", "greeting", "none"}

\* A registry client calls get, filterByTag, size or listSkills.
Query(op, arg) ==
  /\ LET r == query(skills, op, arg)
     IN /\ skills' = r.skills
        /\ lastOp' = [op |-> op, arg |-> arg, result |-> r.result, before |-> skills]
        /\ held' = heldAfter(r.skills)
  /\ UNCHANGED <<history, calls, now, agentRunner, scoreCall, defineCall, cmdCall, routeCall>>

\* A registry client calls list() and keeps the array.
List ==
  /\ LET r == query(skills, "list", "")
     IN /\ skills' = r.skills
        /\ lastOp' = [op |-> "list", arg |-> "", result |-> r.result, before |-> skills]
        /\ held' = [taken |-> TRUE, items |-> r.result]
  /\ UNCHANGED <<history, calls, now, agentRunner, scoreCall, defineCall, cmdCall, routeCall>>

\* The Map after the kept array became items: the Map as it was, unless the
\* array shares its storage.
storeAfterChange(m, items) ==
  IF listShares
  THEN [i \in 1..Len(items) |-> [key |-> Skill[items[i]].name, value |-> items[i]]]
  ELSE m

\* The client changes the array it kept: items.pop() or items.reverse().
ChangeHeld(how) ==
  /\ held.taken
  /\ Len(held.items) > 0
  /\ LET items == IF how = "pop" THEN SubSeq(held.items, 1, Len(held.items) - 1)
                  ELSE [i \in 1..Len(held.items) |-> held.items[Len(held.items) + 1 - i]]
     IN /\ held' = [held EXCEPT !.items = items]
        /\ skills' = storeAfterChange(skills, items)
  /\ UNCHANGED <<lastOp, history, calls, now, agentRunner, scoreCall, defineCall, cmdCall, routeCall>>

\* ------------------------------------------------------------------------
\* SkillRuntime
\* ------------------------------------------------------------------------

\* Latest reading of the clock the model follows.
MaxClock == 2

\* The callers of handle / handleOrThrow.
CallIds == {1}

\* The caller's optional meta object; NoMeta is the omitted argument.
NoMeta == "undefined"
Metas == {NoMeta, "meta1"}

\* What a skill's execute may settle with: a result whose skillName and
\* durationMs are whatever the skill body wrote, or a rejection.
ExecuteOutcomes ==
  {[kind |-> "returns", output |-> o, skillName |-> r[1], durationMs |-> r[2]] :
     o \in {"", "skill output"}, r \in {<<"", 0>>, <<"someone else", 99>>}}
    \cup {[kind |-> "throws"]}

\* What runner.run may settle with.
RunOutcomes ==
  {[kind |-> "returns", text |-> "agent text", durationMs |-> d] : d \in {0, 99}}
    \cup {[kind |-> "throws"]}

Pending == [kind |-> "pending"]
Null == [kind |-> "null"]

IdleCall ==
  [pc |-> "idle", api |-> "handle", input |-> "", meta |-> NoMeta,
   skill |-> NoSkill, start |-> 0, derive |-> [kind |-> "none"], systemPrompt |-> Undefined,
   execLog |-> <<>>, runLog |-> <<>>, result |-> Pending, outer |-> Pending]

\* Any engine that is set delegates, 'direct' included.
isDelegatedWhenSet(skill) == Skill[skill].engine \notin {NoEngine, ""}

\* skill.engine && skill.engine !== 'direct'
isDelegated(skill) ==
  Skill[skill].engine \notin {NoEngine, ""} /\ Skill[skill].engine # "direct"

\* The context without the caller's meta.
handleContextNoMeta(userInput, meta) ==
  [input |-> userInput, rawInput |-> userInput, meta |-> NoMeta]

\* const ctx = { input: userInput, rawInput: userInput, meta }
handleContext(userInput, meta) ==
  [input |-> userInput, rawInput |-> userInput, meta |-> meta]

\* { input: userInput, rawInput: userInput } of executeViaAgentRunner
agentContext(userInput) ==
  [input |-> userInput, rawInput |-> userInput, meta |-> NoMeta]

\* The spread last: the skill's own skillName and durationMs win.
timedResultTrusting(result, skill, durationMs) ==
  [kind |-> "result", output |-> result.output,
   skillName |-> result.skillName, durationMs |-> result.durationMs]

\* { ...result, skillName: skill.name, durationMs }
timedResult(result, skill, durationMs) ==
  [kind |-> "result", output |-> result.output,
   skillName |-> Skill[skill].name, durationMs |-> durationMs]

\* { output: result.text, skillName: skill.name, durationMs }
agentResult(result, skill, durationMs) ==
  [kind |-> "result", output |-> result.text,
   skillName |-> Skill[skill].name, durationMs |-> durationMs]

\* Every delegated skill run on the one backend.
backendOfClaudeOnly(skill) == "claude-code"

\* skill.engine === 'codex' ? 'codex' : 'claude-code'
backendOf(skill) == IF Skill[skill].engine = "codex" THEN "codex" ELSE "claude-code"

\* if (instructionResult.output) systemPrompt = instructionResult.output
derivedPrompt(outcome) ==
  IF outcome.kind = "returns" /\ outcome.output # "" THEN outcome.output ELSE Undefined

Rejected(error) == [kind |-> "rejected", error |-> error]

\* throw new Error(`No skill matched input: "${userInput}"`)
NoSkillMatched(userInput) ==
  [kind |-> "rejected", error |-> "No skill matched input", input |-> userInput]

\* handleOrThrow without its check.
handleOrThrowUnchecked(result, userInput) == result

\* handleOrThrow after its await of handle.
handleOrThrowOutcome(result, userInput) ==
  IF result.kind = "null" THEN NoSkillMatched(userInput) ELSE result

\* runtime.register(skill): forwards to registry.register(skill).
RuntimeRegister(s) ==
  /\ mapHas(skills, Skill[s].name) \/ Len(skills) < MaxRuntimeSkills
  /\ skills' = register(skills, s).skills
  /\ UNCHANGED <<lastOp, held, history, calls, now, agentRunner, scoreCall, defineCall, cmdCall, routeCall>>

\* runtime.registry.remove(name)
RuntimeRemove(name) ==
  /\ skills' = remove(skills, name).skills
  /\ UNCHANGED <<lastOp, held, history, calls, now, agentRunner, scoreCall, defineCall, cmdCall, routeCall>>

\* handle ranking with the weights of the list of the call before it.
handleStartStaleWeights(c, api, userInput, meta) ==
  LET snapshot == list(skills)
      idf == IF routeCall.pc = "done" THEN routeIdf(routeCall.skills)
             ELSE routeIdf(snapshot)
      matches == sortMatches(collectMatches(snapshot, userInput, idf))
      skill == IF Len(matches) > 0 THEN matches[1].skill ELSE NoSkill
      call == [IdleCall EXCEPT !.api = api, !.input = userInput, !.meta = meta,
                               !.skill = skill]
  IN IF skill = NoSkill
     THEN [call EXCEPT !.pc = "done", !.result = Null]
     ELSE IF isDelegated(skill)
          THEN [call EXCEPT !.pc = "import", !.start = now]
          ELSE [call EXCEPT !.pc = "execute", !.start = now,
                            !.execLog = <<[skill |-> skill,
                                           ctx |-> handleContext(userInput, meta)]>>]

\* The synchronous head of handle: snapshot, route, and up to the first await.
handleStart(c, api, userInput, meta) ==
  LET snapshot == list(skills)
      skill == routeBest(snapshot, userInput)
      call == [IdleCall EXCEPT !.api = api, !.input = userInput, !.meta = meta,
                               !.skill = skill]
  IN IF skill = NoSkill
     THEN [call EXCEPT !.pc = "done", !.result = Null]
     ELSE IF isDelegated(skill)
          THEN [call EXCEPT !.pc = "import", !.start = now]
          ELSE [call EXCEPT !.pc = "execute", !.start = now,
                            !.execLog = <<[skill |-> skill,
                                           ctx |-> handleContext(userInput, meta)]>>]

\* rt.handle(userInput, meta) / rt.handleOrThrow(userInput, meta)
HandleStart(c, api, userInput, meta) ==
  /\ calls[c].pc = "idle"
  /\ calls' = [calls EXCEPT ![c] = handleStart(c, api, userInput, meta)]
  /\ UNCHANGED <<skills, lastOp, held, history, now, agentRunner, scoreCall, defineCall, cmdCall, routeCall>>

\* executeWithTiming looking the skill up again after its await.
executeSettledRerouted(call, outcome) ==
  LET current == routeBest(list(skills), call.input)
  IN IF current = NoSkill
     THEN [call EXCEPT !.pc = "done", !.skill = current, !.result = Null]
     ELSE [call EXCEPT !.pc = "done", !.skill = current,
                       !.result = timedResult([output |-> "skill output"], current,
                                              now - call.start)]

\* executeWithTiming resumes from await skill.execute(ctx).
executeSettled(call, outcome) ==
  IF outcome.kind = "throws"
  THEN [call EXCEPT !.pc = "done", !.result = Rejected("execute failed")]
  ELSE [call EXCEPT !.pc = "done",
                    !.result = timedResult(outcome, call.skill, now - call.start)]

ExecuteSettled(c) ==
  /\ calls[c].pc = "execute"
  /\ \E outcome \in ExecuteOutcomes :
        calls' = [calls EXCEPT ![c] = executeSettled(calls[c], outcome)]
  /\ UNCHANGED <<skills, lastOp, held, history, now, agentRunner, scoreCall, defineCall, cmdCall, routeCall>>

\* executeViaAgentRunner resumes from its await import(...): with the module
\* it builds the runner and calls skill.execute for instructions, without it
\* the outer catch calls skill.execute as the fallback.
importSettled(call, available) ==
  IF available
  THEN [call EXCEPT !.pc = "derive",
                    !.execLog = Append(@, [skill |-> call.skill,
                                           ctx |-> agentContext(call.input)])]
  ELSE [call EXCEPT !.pc = "fallback",
                    !.execLog = Append(@, [skill |-> call.skill,
                                           ctx |-> agentContext(call.input)])]

ImportSettled(c) ==
  /\ calls[c].pc = "import"
  /\ calls' = [calls EXCEPT ![c] = importSettled(calls[c], agentRunner)]
  /\ UNCHANGED <<skills, lastOp, held, history, now, agentRunner, scoreCall, defineCall, cmdCall, routeCall>>

\* What the instruction call settled with, as far as the caller reads it.
derived(outcome) ==
  IF outcome.kind = "throws" THEN [kind |-> "throws"]
  ELSE [kind |-> "returns", output |-> outcome.output]

\* One try/catch for both steps: a rejected execute enters the fallback.
deriveSettledOneTry(call, outcome) ==
  IF outcome.kind = "throws"
  THEN [call EXCEPT !.pc = "fallback", !.derive = derived(outcome),
                    !.execLog = Append(@, [skill |-> call.skill,
                                           ctx |-> [input |-> call.input,
                                                    rawInput |-> call.input,
                                                    meta |-> "undefined"]])]
  ELSE [call EXCEPT !.pc = "run", !.systemPrompt = outcome.output,
                    !.derive = derived(outcome),
                    !.runLog = Append(@, [backend |-> "claude-code",
                                          prompt |-> call.input,
                                          systemPrompt |-> outcome.output,
                                          mode |-> "print"])]

\* The inner try resumes from await skill.execute(...): a rejection is
\* swallowed, then runner.run is called.
deriveSettled(call, outcome) ==
  LET systemPrompt == derivedPrompt(outcome)
  IN [call EXCEPT !.pc = "run", !.systemPrompt = systemPrompt,
                  !.derive = derived(outcome),
                  !.runLog = Append(@, [backend |-> backendOf(call.skill),
                                        prompt |-> call.input,
                                        systemPrompt |-> systemPrompt,
                                        mode |-> "print"])]

DeriveSettled(c) ==
  /\ calls[c].pc = "derive"
  /\ \E outcome \in ExecuteOutcomes :
        calls' = [calls EXCEPT ![c] = deriveSettled(calls[c], outcome)]
  /\ UNCHANGED <<skills, lastOp, held, history, now, agentRunner, scoreCall, defineCall, cmdCall, routeCall>>

\* No outer catch: a rejection of runner.run rejects handle.
runSettledRethrows(call, outcome) ==
  IF outcome.kind = "throws"
  THEN [call EXCEPT !.pc = "done", !.result = Rejected("backend failed")]
  ELSE [call EXCEPT !.pc = "done",
                    !.result = agentResult(outcome, call.skill, now - call.start)]

\* Resumes from await runner.run(...): its text is returned, its rejection
\* enters the outer catch, which calls skill.execute as the fallback.
runSettled(call, outcome) ==
  IF outcome.kind = "throws"
  THEN [call EXCEPT !.pc = "fallback",
                    !.execLog = Append(@, [skill |-> call.skill,
                                           ctx |-> agentContext(call.input)])]
  ELSE [call EXCEPT !.pc = "done",
                    !.result = agentResult(outcome, call.skill, now - call.start)]

RunSettled(c) ==
  /\ calls[c].pc = "run"
  /\ \E outcome \in RunOutcomes :
        calls' = [calls EXCEPT ![c] = runSettled(calls[c], outcome)]
  /\ UNCHANGED <<skills, lastOp, held, history, now, agentRunner, scoreCall, defineCall, cmdCall, routeCall>>

\* The outer catch passing the backend's failure on to the caller.
fallbackSettledRethrows(call, outcome) ==
  [call EXCEPT !.pc = "done", !.result = Rejected("backend failed")]

\* The outer catch resumes from await skill.execute(ctx).
fallbackSettled(call, outcome) ==
  IF outcome.kind = "throws"
  THEN [call EXCEPT !.pc = "done", !.result = Rejected("execute failed")]
  ELSE [call EXCEPT !.pc = "done",
                    !.result = timedResult(outcome, call.skill, now - call.start)]

FallbackSettled(c) ==
  /\ calls[c].pc = "fallback"
  /\ \E outcome \in ExecuteOutcomes :
        calls' = [calls EXCEPT ![c] = fallbackSettled(calls[c], outcome)]
  /\ UNCHANGED <<skills, lastOp, held, history, now, agentRunner, scoreCall, defineCall, cmdCall, routeCall>>

\* handleOrThrow resumes from await this.handle(userInput, meta).
HandleOrThrowSettled(c) ==
  /\ calls[c].pc = "done"
  /\ calls[c].api = "handleOrThrow"
  /\ calls' = [calls EXCEPT ![c].pc = "settled",
                            ![c].outer = handleOrThrowOutcome(calls[c].result, calls[c].input)]
  /\ UNCHANGED <<skills, lastOp, held, history, now, agentRunner, scoreCall, defineCall, cmdCall, routeCall>>

\* The caller takes the settled promise and may call again.
Collect(c) ==
  /\ \/ calls[c].pc = "done" /\ calls[c].api = "handle"
     \/ calls[c].pc = "settled"
  /\ calls' = [calls EXCEPT ![c] = IdleCall]
  /\ UNCHANGED <<skills, lastOp, held, history, now, agentRunner, scoreCall, defineCall, cmdCall, routeCall>>

\* Time passes.
Tick ==
  /\ now < MaxClock
  /\ now' = now + 1
  /\ UNCHANGED <<skills, lastOp, held, history, calls, agentRunner, scoreCall, defineCall, cmdCall, routeCall>>

\* ------------------------------------------------------------------------
\* Callers of the router's exported functions
\* ------------------------------------------------------------------------

\* Longest skill list handed to route.
MaxRouteLen == 5

IsInjective(q) == \A i, j \in 1..Len(q) : q[i] = q[j] => i = j

\* The skill lists route is called with: no object twice, names may repeat.
SkillLists ==
  {q \in UNION {[1..n -> SkillIds] : n \in 0..MaxRouteLen} : IsInjective(q)}

RouteIdle == [pc |-> "idle", skills |-> <<>>, input |-> "", matches |-> <<>>, best |-> NoSkill]

InitRoute ==
  /\ skills = <<>>
  /\ lastOp = NoOp
  /\ held = NoArray
  /\ history = NoHistory
  /\ calls = [c \in CallIds |-> IdleCall]
  /\ now = 0
  /\ agentRunner = FALSE
  /\ scoreCall = ScoreIdle
  /\ defineCall = DefineIdle
  /\ cmdCall = CmdIdle
  /\ routeCall \in {[pc |-> "call", skills |-> q, input |-> u, matches |-> <<>>, best |-> NoSkill] :
                   q \in SkillLists, u \in Inputs}

\* const matches = route(skills, input)
CallRoute ==
  /\ routeCall.pc = "call"
  /\ routeCall' = [routeCall EXCEPT !.pc = "routed",
                                    !.matches = route(routeCall.skills, routeCall.input)]
  /\ UNCHANGED <<skills, lastOp, held, history, calls, now, agentRunner, scoreCall, defineCall, cmdCall>>

\* const best = routeBest(skills, input)
CallRouteBest ==
  /\ routeCall.pc = "routed"
  /\ routeCall' = [routeCall EXCEPT !.pc = "done",
                                    !.best = routeBest(routeCall.skills, routeCall.input)]
  /\ UNCHANGED <<skills, lastOp, held, history, calls, now, agentRunner, scoreCall, defineCall, cmdCall>>

NextRoute == CallRoute \/ CallRouteBest

SpecRoute == InitRoute /\ [][NextRoute]_vars

\* ------------------------------------------------------------------------
\* The runtime with its registry
\* ------------------------------------------------------------------------

\* new SkillRuntime(): an empty registry; the agent-runner module is installed or not.
Init ==
  /\ skills = <<>>
  /\ lastOp = NoOp
  /\ held = NoArray
  /\ history = NoHistory
  /\ calls = [c \in CallIds |-> IdleCall]
  /\ now = 0
  /\ agentRunner \in BOOLEAN
  /\ scoreCall = ScoreIdle
  /\ defineCall = DefineIdle
  /\ cmdCall = CmdIdle
  /\ routeCall = RouteIdle

Next ==
  \/ \E s \in SkillIds : RuntimeRegister(s)
  \/ \E name \in RemoveNames : RuntimeRemove(name)
  \/ \E c \in CallIds, api \in {"handle", "handleOrThrow"}, u \in Inputs, m \in Metas :
        HandleStart(c, api, u, m)
  \/ \E c \in CallIds : ExecuteSettled(c)
  \/ \E c \in CallIds : ImportSettled(c)
  \/ \E c \in CallIds : DeriveSettled(c)
  \/ \E c \in CallIds : RunSettled(c)
  \/ \E c \in CallIds : FallbackSettled(c)
  \/ \E c \in CallIds : HandleOrThrowSettled(c)
  \/ \E c \in CallIds : Collect(c)
  \/ Tick

Spec == Init /\ [][Next]_vars

\* ------------------------------------------------------------------------
\* Callers of the exported scoreSkill
\* ------------------------------------------------------------------------

\* The skills scored.
ScoreSkillIds == {"time", "greet", "echo", "weather", "git", "tabbed", "mail"}

\* The skill lists whose buildIdf map is passed as the idf argument.
IdfCorpora ==
  {<<"time", "greet", "echo", "weather", "git">>,
   <<"mail", "weather", "git", "echo", "greet">>}

\* The idf arguments for a skill: omitted, or the map of a list holding it.
IdfArgs(id) ==
  {NoIdf} \cup {SomeIdf(buildIdf(q)) : q \in {c \in IdfCorpora : id \in SeqToSet(c)}}

InitScore ==
  /\ skills = <<>>
  /\ lastOp = NoOp
  /\ held = NoArray
  /\ history = NoHistory
  /\ calls = [c \in CallIds |-> IdleCall]
  /\ now = 0
  /\ agentRunner = FALSE
  /\ routeCall = RouteIdle
  /\ \E id \in ScoreSkillIds, u \in ScoreInputs :
        \E idf \in IdfArgs(id) :
           scoreCall = [pc |-> "call", skill |-> id, input |-> u, idf |-> idf]
  /\ defineCall = DefineIdle
  /\ cmdCall = CmdIdle

\* scoreSkill(skill, input, idf): the number returned, and what each phase
\* added to it.
CallScoreSkill ==
  /\ scoreCall.pc = "call"
  /\ LET lower == lowerOf(scoreCall.input)
     IN scoreCall' =
          [pc |-> "scored", skill |-> scoreCall.skill, input |-> scoreCall.input,
           idf |-> scoreCall.idf,
           score |-> scoreSkill(scoreCall.skill, scoreCall.input, scoreCall.idf),
           keyword |-> keywordScore(Skill[scoreCall.skill].keywords, lower),
           desc |-> descScore(tokensOf(scoreCall.input),
                              tokensOf(Skill[scoreCall.skill].description),
                              scoreCall.idf)]
  /\ UNCHANGED <<skills, lastOp, held, history, calls, now, agentRunner, routeCall,
                 defineCall, cmdCall>>

NextScore == CallScoreSkill

SpecScore == InitScore /\ [][NextScore]_vars

\* ------------------------------------------------------------------------
\* A runtime whose registry grows past the idf threshold
\* ------------------------------------------------------------------------

\* Most skills registered at a time.
MaxCorpusSkills == 5

\* The order in which the client registers skills; it removes the last one.
CorpusOrder == <<"time", "greet", "echo", "weather", "git", "mail", "tabbed">>

CorpusInputs == {"git skill", "what time is it"}

\* No handle call yet.
NoEarlier == [taken |-> FALSE, skills |-> <<>>, input |-> "", matches |-> <<>>]

CorpusIdle ==
  [pc |-> "idle", skills |-> <<>>, input |-> "", matches |-> <<>>, best |-> NoSkill,
   earlier |-> NoEarlier]

InitCorpus ==
  /\ skills = <<>>
  /\ lastOp = NoOp
  /\ held = NoArray
  /\ history = NoHistory
  /\ calls = [c \in CallIds |-> IdleCall]
  /\ now = 0
  /\ agentRunner \in BOOLEAN
  /\ routeCall = CorpusIdle
  /\ scoreCall = ScoreIdle
  /\ defineCall = DefineIdle
  /\ cmdCall = CmdIdle

\* rt.register(skill) for the next skill of the order
CorpusRegister ==
  /\ Len(skills) < MaxCorpusSkills
  /\ skills' = register(skills, CorpusOrder[Len(skills) + 1]).skills
  /\ UNCHANGED <<lastOp, held, history, calls, now, agentRunner, routeCall, scoreCall,
                 defineCall, cmdCall>>

\* rt.registry.remove(name) for the skill registered last
CorpusRemove ==
  /\ Len(skills) > 0
  /\ skills' = remove(skills, Skill[CorpusOrder[Len(skills)]].name).skills
  /\ UNCHANGED <<lastOp, held, history, calls, now, agentRunner, routeCall, scoreCall,
                 defineCall, cmdCall>>

\* rt.handle(userInput); routeCall keeps the list and the ranking of this call
\* and of the one before it.
CorpusHandle(c, userInput) ==
  /\ calls[c].pc = "idle"
  /\ calls' = [calls EXCEPT ![c] = handleStart(c, "handle", userInput, NoMeta)]
  /\ routeCall' =
       [pc |-> "done", skills |-> list(skills), input |-> userInput,
        matches |-> route(list(skills), userInput), best |-> calls'[c].skill,
        earlier |-> IF routeCall.pc = "done"
                    THEN [taken |-> TRUE, skills |-> routeCall.skills,
                          input |-> routeCall.input, matches |-> routeCall.matches]
                    ELSE NoEarlier]
  /\ UNCHANGED <<skills, lastOp, held, history, now, agentRunner, scoreCall, defineCall,
                 cmdCall>>

NextCorpus ==
  \/ CorpusRegister
  \/ CorpusRemove
  \/ \E c \in CallIds, u \in CorpusInputs : CorpusHandle(c, u)
  \/ \E c \in CallIds : ExecuteSettled(c)
  \/ \E c \in CallIds : ImportSettled(c)
  \/ \E c \in CallIds : DeriveSettled(c)
  \/ \E c \in CallIds : RunSettled(c)
  \/ \E c \in CallIds : FallbackSettled(c)
  \/ \E c \in CallIds : Collect(c)

SpecCorpus == InitCorpus /\ [][NextCorpus]_vars

\* ------------------------------------------------------------------------
\* Definitions passed to defineSkill and to register
\* ------------------------------------------------------------------------

\* Most skills the client's registry holds.
MaxDefined == 2

DefineSkillIds == {"time", "time2", "greet", "noname", "nodesc"}

\* A definition object: name and description are those of the catalogue
\* entry, execute is a function or missing.
Definitions == [skill : DefineSkillIds, execute : {"function", Undefined}]

NoDefinition == [skill |-> NoSkill, execute |-> Undefined]

\* defineSkill checking the name only.
defineSkillNameOnly(def) ==
  IF Skill[def.skill].name = ""
  THEN [kind |-> "throws", message |-> "Skill must have a name"]
  ELSE [kind |-> "returns", value |-> def]

\* defineSkill(def): three checks in order, then the argument itself.
defineSkill(def) ==
  IF Skill[def.skill].name = ""
  THEN [kind |-> "throws", message |-> "Skill must have a name"]
  ELSE IF Skill[def.skill].description = ""
  THEN [kind |-> "throws", message |-> "Skill must have a description"]
  ELSE IF def.execute = Undefined
  THEN [kind |-> "throws", message |-> "Skill must have an execute function"]
  ELSE [kind |-> "returns", value |-> def]

InitDefine ==
  /\ skills = <<>>
  /\ lastOp = NoOp
  /\ held = NoArray
  /\ history = NoHistory
  /\ calls = [c \in CallIds |-> IdleCall]
  /\ now = 0
  /\ agentRunner = FALSE
  /\ routeCall = RouteIdle
  /\ scoreCall = ScoreIdle
  /\ \E def \in Definitions :
        defineCall = [pc |-> "call", def |-> def, result |-> Pending,
                      registered |-> NoDefinition]
  /\ cmdCall = CmdIdle

\* defineSkill(def)
CallDefineSkill ==
  /\ defineCall.pc = "call"
  /\ defineCall' = [defineCall EXCEPT !.pc = "settled",
                                      !.result = defineSkill(defineCall.def)]
  /\ UNCHANGED <<skills, lastOp, held, history, calls, now, agentRunner, routeCall,
                 scoreCall, cmdCall>>

\* registry.register(def) for a definition object that did not go through
\* defineSkill; register reads its name only.
DefineRegister(def) ==
  /\ mapHas(skills, Skill[def.skill].name) \/ Len(skills) < MaxDefined
  /\ LET r == register(skills, def.skill)
     IN /\ skills' = r.skills
        /\ lastOp' = [op |-> "register", arg |-> def.skill, result |-> r.result,
                      before |-> skills]
  /\ defineCall' = [defineCall EXCEPT !.registered = def]
  /\ UNCHANGED <<held, history, calls, now, agentRunner, routeCall, scoreCall, cmdCall>>

NextDefine ==
  \/ CallDefineSkill
  \/ \E def \in Definitions : DefineRegister(def)

SpecDefine == InitDefine /\ [][NextDefine]_vars

\* ------------------------------------------------------------------------
\* The run-command skill
\* ------------------------------------------------------------------------

ALLOWED_LIST ==
  <<"ls", "pwd", "whoami", "date", "uptime", "uname", "cat", "head", "tail", "wc",
    "echo", "which", "env", "df", "du", "ps", "git", "node", "bun", "pnpm", "npm">>

ALLOWED_COMMANDS == SeqToSet(ALLOWED_LIST)

\* The alternatives of the prefix pattern, in the order the regex tries them.
PREFIX_WORDS == <<"run", "execute", "exec", "cmd">>

IsSpaceAt(s, i) == i >= 1 /\ i <= Len(s) /\ CharAt(s, i) \in WhitespaceChars

\* The first position from i on that holds no whitespace; Len(s) + 1 if none.
RECURSIVE skipSpaces(_, _)
skipSpaces(s, i) == IF IsSpaceAt(s, i) THEN skipSpaces(s, i + 1) ELSE i

\* The last position up to i that holds no whitespace; 0 if none.
RECURSIVE skipSpacesBack(_, _)
skipSpacesBack(s, i) == IF IsSpaceAt(s, i) THEN skipSpacesBack(s, i - 1) ELSE i

\* String.prototype.trim
trim(s) == SubSeq(s, skipSpaces(s, 1), skipSpacesBack(s, Len(s)))

\* The first position from i on that holds whitespace; Len(s) + 1 if none.
RECURSIVE skipWord(_, _)
skipWord(s, i) == IF i > Len(s) \/ IsSpaceAt(s, i) THEN i ELSE skipWord(s, i + 1)

\* s.split(/\s+/) for a trimmed, non-empty s, from position i on.
RECURSIVE splitSpaces(_, _)
splitSpaces(s, i) ==
  IF i > Len(s) THEN <<>>
  ELSE LET e == skipWord(s, i)
       IN <<SubSeq(s, i, e - 1)>> \o splitSpaces(s, skipSpaces(s, e))

\* Array.prototype.join
RECURSIVE join(_, _)
join(parts, sep) ==
  IF parts = <<>> THEN ""
  ELSE IF Len(parts) = 1 THEN parts[1]
  ELSE parts[1] \o sep \o join(Tail(parts), sep)

\* input.replace(/^\s*(run|execute|exec|cmd)\s+/i, ''): after the leading
\* whitespace, the first alternative that is followed by whitespace is cut
\* off together with the whitespace on both sides of it.
stripPrefix(input) ==
  LET i == skipSpaces(input, 1)
      fits(k) == /\ i + Len(PREFIX_WORDS[k]) <= Len(input)
                 /\ toLowerCase(SubSeq(input, i, i + Len(PREFIX_WORDS[k]) - 1))
                      = PREFIX_WORDS[k]
                 /\ IsSpaceAt(input, i + Len(PREFIX_WORDS[k]))
      found == {k \in 1..Len(PREFIX_WORDS) : fits(k)}
  IN IF found = {} THEN input
     ELSE LET k == CHOOSE k \in found : \A j \in found : k <= j
          IN SubSeq(input, skipSpaces(input, i + Len(PREFIX_WORDS[k])), Len(input))

\* parseCommand without the prefix pattern.
parseCommandNoPrefix(input) ==
  LET cleaned == trim(input)
  IN IF cleaned = "" THEN [parsed |-> FALSE]
     ELSE LET parts == splitSpaces(cleaned, 1)
          IN [parsed |-> TRUE, bin |-> parts[1], args |-> Tail(parts)]

parseCommand(input) ==
  LET cleaned == trim(stripPrefix(input))
  IN IF cleaned = "" THEN [parsed |-> FALSE]
     ELSE LET parts == splitSpaces(cleaned, 1)
          IN [parsed |-> TRUE, bin |-> parts[1], args |-> Tail(parts)]

\* What execFileAsync may settle with: the streams of a command that ran, or
\* a rejection (non-zero exit, spawn error, kill at the timeout).
SpawnOutcomes ==
  {[kind |-> "exits", stdout |-> o, stderr |-> e] : o \in {"", "out"}, e \in {"", "err"}}
    \cup {[kind |-> "rejects", message |-> msg] :
            msg \in {"Command failed: exit code 1", "spawn ENOENT", "killed at timeout"}}

\* The inputs: a lead and a rest, written one after the other.
CmdLeads == {"", "run ", "Execute ", "exec\t", " cmd  ", "running ", "run"}

CmdRests == {"", "ls", "ls -la  src", "git status", "rm -rf x", "LS", "sudo ls", "run ls", "echo  hi "}

CmdInputs == {lead \o rest : lead \in CmdLeads, rest \in CmdRests}

commandResult(output) ==
  [kind |-> "returns", output |-> output, skillName |-> "run-command", durationMs |-> 0]

InitCmd ==
  /\ skills = <<>>
  /\ lastOp = NoOp
  /\ held = NoArray
  /\ history = NoHistory
  /\ calls = [c \in CallIds |-> IdleCall]
  /\ now = 0
  /\ agentRunner = FALSE
  /\ routeCall = RouteIdle
  /\ scoreCall = ScoreIdle
  /\ defineCall = DefineIdle
  /\ \E input \in CmdInputs :
        cmdCall = [pc |-> "call", input |-> input, spawnLog |-> <<>>,
                   outcome |-> Pending, result |-> Pending]

\* execute(ctx) up to its await: parse, test the allowed list, spawn.
commandStart(call) ==
  LET parsed == parseCommand(call.input)
  IN IF ~parsed.parsed
     THEN [call EXCEPT !.pc = "done",
             !.result = commandResult(
                "Could not parse a command from input. Try: \"run ls -la\"")]
     ELSE IF parsed.bin \notin ALLOWED_COMMANDS
     THEN [call EXCEPT !.pc = "done",
             !.result = commandResult(
                "Command \"" \o parsed.bin \o "\" is not in the allowed list.\nAllowed: "
                  \o join(ALLOWED_LIST, ", "))]
     ELSE [call EXCEPT !.pc = "spawned",
             !.spawnLog = <<[bin |-> parsed.bin, args |-> parsed.args]>>]

CommandStart ==
  /\ cmdCall.pc = "call"
  /\ cmdCall' = commandStart(cmdCall)
  /\ UNCHANGED <<skills, lastOp, held, history, calls, now, agentRunner, routeCall,
                 scoreCall, defineCall>>

\* execute with no catch around the spawned command.
commandSettledRethrows(call, outcome) ==
  IF outcome.kind = "rejects"
  THEN [call EXCEPT !.pc = "done", !.outcome = outcome,
                    !.result = [kind |-> "throws", message |-> outcome.message]]
  ELSE [call EXCEPT !.pc = "done", !.outcome = outcome,
                    !.result = commandResult("$ " \o call.spawnLog[1].bin)]

\* execute resumes from await execFileAsync(...).
commandSettled(call, outcome) ==
  LET bin == call.spawnLog[1].bin
      line == bin \o " " \o join(call.spawnLog[1].args, " ")
  IN IF outcome.kind = "rejects"
     THEN [call EXCEPT !.pc = "done", !.outcome = outcome,
             !.result = commandResult("Command failed: " \o line \o "\n" \o outcome.message)]
     ELSE LET out == outcome.stdout
              both == IF outcome.stderr = "" THEN out
                      ELSE out \o (IF out # "" THEN "\n" ELSE "")
                             \o "[stderr] " \o outcome.stderr
              output == IF both = "" THEN "(no output)" ELSE both
          IN [call EXCEPT !.pc = "done", !.outcome = outcome,
                !.result = commandResult("$ " \o line \o "\n" \o output)]

CommandSettled ==
  /\ cmdCall.pc = "spawned"
  /\ \E outcome \in SpawnOutcomes : cmdCall' = commandSettled(cmdCall, outcome)
  /\ UNCHANGED <<skills, lastOp, held, history, calls, now, agentRunner, routeCall,
                 scoreCall, defineCall>>

NextCmd == CommandStart \/ CommandSettled

SpecCmd == InitCmd /\ [][NextCmd]_vars

\* ------------------------------------------------------------------------
\* A runtime holding skills loaded from SKILL.md files with an engine
\* ------------------------------------------------------------------------

\* The skills markdownToSkill built with engine claude-code and codex.
LoadedSkillIds == {"mdtides", "mdnotes"}

LoadedInputs == {"tides today", "notes please", "nothing here"}

\* The body of the SKILL.md file the skill was built from.
bodyOf(skill) == "instructions of " \o Skill[skill].name

\* const backend = engine === 'codex' ? 'codex' : 'claude-code'
\* runner.run({ prompt: ctx.rawInput, systemPrompt: body, mode: 'print' })
loaderRun(skill, ctx) ==
  [backend |-> IF Skill[skill].engine = "codex" THEN "codex" ELSE "claude-code",
   prompt |-> ctx.rawInput, systemPrompt |-> bodyOf(skill), mode |-> "print"]

\* What the loaded skill's execute settles with: the text of its run, or,
\* from its catch, a note followed by the body. It never rejects.
loaderOutcome(skill, run) ==
  IF run.kind = "returns"
  THEN [kind |-> "returns", output |-> run.text, skillName |-> Skill[skill].name,
        durationMs |-> run.durationMs]
  ELSE [kind |-> "returns",
        output |-> "[agent-runner unavailable: " \o run.message
                     \o "]\n\nSkill instructions (" \o Skill[skill].name \o "):\n\n"
                     \o bodyOf(skill),
        skillName |-> Skill[skill].name, durationMs |-> 0]

\* The failed import inside the loaded skill's execute.
ImportFailed == [kind |-> "throws", message |-> "Cannot find module"]

\* A failed run inside the loaded skill's execute.
loaderRunOutcome(outcome) ==
  IF outcome.kind = "throws" THEN [kind |-> "throws", message |-> "run failed"]
  ELSE outcome

InitLoaded ==
  /\ skills = <<>>
  /\ lastOp = NoOp
  /\ held = NoArray
  /\ history = NoHistory
  /\ calls = [c \in CallIds |-> IdleCall]
  /\ now = 0
  /\ agentRunner \in BOOLEAN
  /\ routeCall = RouteIdle
  /\ scoreCall = ScoreIdle
  /\ defineCall = DefineIdle
  /\ cmdCall = CmdIdle

\* rt.register(skill) for a loaded skill
LoadedRegister(s) ==
  /\ skills' = register(skills, s).skills
  /\ UNCHANGED <<lastOp, held, history, calls, now, agentRunner, routeCall, scoreCall,
                 defineCall, cmdCall>>

\* The loaded skill's execute up to its await of runner.run; the caller
\* waits at pc.
loaderStart(call, pc) ==
  [call EXCEPT !.pc = pc,
               !.runLog = Append(@, loaderRun(call.skill, agentContext(call.input)))]

\* The runtime awaits skill.execute(...) for instructions: with the module
\* the loaded execute starts its run, without it its catch answers at once.
LoaderDeriveStart(c) ==
  /\ calls[c].pc = "derive"
  /\ calls' = [calls EXCEPT ![c] =
                 IF agentRunner THEN loaderStart(calls[c], "deriveRun")
                 ELSE deriveSettled(calls[c], loaderOutcome(calls[c].skill, ImportFailed))]
  /\ UNCHANGED <<skills, lastOp, held, history, now, agentRunner, routeCall, scoreCall,
                 defineCall, cmdCall>>

\* The loaded skill's execute resumes from runner.run and returns; the
\* runtime resumes from await skill.execute(...) in its inner try.
LoaderDeriveSettled(c) ==
  /\ calls[c].pc = "deriveRun"
  /\ \E outcome \in RunOutcomes :
        calls' = [calls EXCEPT ![c] =
                    deriveSettled(calls[c],
                                  loaderOutcome(calls[c].skill, loaderRunOutcome(outcome)))]
  /\ UNCHANGED <<skills, lastOp, held, history, now, agentRunner, routeCall, scoreCall,
                 defineCall, cmdCall>>

\* The outer catch awaits skill.execute(ctx) in the same way.
LoaderFallbackStart(c) ==
  /\ calls[c].pc = "fallback"
  /\ calls' = [calls EXCEPT ![c] =
                 IF agentRunner THEN loaderStart(calls[c], "fallbackRun")
                 ELSE fallbackSettled(calls[c], loaderOutcome(calls[c].skill, ImportFailed))]
  /\ UNCHANGED <<skills, lastOp, held, history, now, agentRunner, routeCall, scoreCall,
                 defineCall, cmdCall>>

\* The loaded execute resumes and returns to the outer catch of the runtime.
LoaderFallbackSettled(c) ==
  /\ calls[c].pc = "fallbackRun"
  /\ \E outcome \in RunOutcomes :
        calls' = [calls EXCEPT ![c] =
                    fallbackSettled(calls[c],
                                    loaderOutcome(calls[c].skill, loaderRunOutcome(outcome)))]
  /\ UNCHANGED <<skills, lastOp, held, history, now, agentRunner, routeCall, scoreCall,
                 defineCall, cmdCall>>

NextLoaded ==
  \/ \E s \in LoadedSkillIds : LoadedRegister(s)
  \/ \E c \in CallIds, u \in LoadedInputs : HandleStart(c, "handle", u, NoMeta)
  \/ \E c \in CallIds : ImportSettled(c)
  \/ \E c \in CallIds : LoaderDeriveStart(c)
  \/ \E c \in CallIds : LoaderDeriveSettled(c)
  \/ \E c \in CallIds : RunSettled(c)
  \/ \E c \in CallIds : LoaderFallbackStart(c)
  \/ \E c \in CallIds : LoaderFallbackSettled(c)
  \/ \E c \in CallIds : Collect(c)

SpecLoaded == InitLoaded /\ [][NextLoaded]_vars

\* ------------------------------------------------------------------------
\* A client of the registry alone
\* ------------------------------------------------------------------------

InitRegistry ==
  /\ skills = <<>>
  /\ lastOp = NoOp
  /\ held = NoArray
  /\ history = NoHistory
  /\ calls = [c \in CallIds |-> IdleCall]
  /\ now = 0
  /\ agentRunner = FALSE
  /\ scoreCall = ScoreIdle
  /\ defineCall = DefineIdle
  /\ cmdCall = CmdIdle
  /\ routeCall = RouteIdle

NextRegistry ==
  \/ \E s \in SkillIds : Register(s)
  \/ \E name \in RemoveNames : Remove(name)
  \/ \E name \in RemoveNames : Query("get", name)
  \/ \E tag \in QueryTags : Query("filterByTag", tag)
  \/ Query("size", "")
  \/ Query("listSkills", "")
  \/ List
  \/ \E how \in {"pop", "reverse"} : ChangeHeld(how)

SpecRegistry == InitRegistry /\ [][NextRegistry]_vars

\* ------------------------------------------------------------------------
\* Two callers of one runtime, interleaved with register and remove
\* ------------------------------------------------------------------------

\* The callers whose handle calls overlap.
ConcCallIds == {1, 2}

\* The skills registered and removed while calls are suspended: two objects
\* of one name (a direct and a delegated one) and two direct skills that tie.
ConcSkillIds == {"time", "time2", "greet", "echo"}

ConcInputs == {"what time is it", "hi there"}

InitConc ==
  /\ skills = <<>>
  /\ lastOp = NoOp
  /\ held = NoArray
  /\ history = NoHistory
  /\ calls = [c \in ConcCallIds |-> IdleCall]
  /\ now = 0
  /\ agentRunner \in BOOLEAN
  /\ scoreCall = ScoreIdle
  /\ defineCall = DefineIdle
  /\ cmdCall = CmdIdle
  /\ routeCall = RouteIdle

NextConc ==
  \/ \E s \in ConcSkillIds : RuntimeRegister(s)
  \/ \E s \in ConcSkillIds : RuntimeRemove(Skill[s].name)
  \/ \E c \in ConcCallIds, u \in ConcInputs : HandleStart(c, "handle", u, NoMeta)
  \/ \E c \in ConcCallIds : ExecuteSettled(c)
  \/ \E c \in ConcCallIds : ImportSettled(c)
  \/ \E c \in ConcCallIds : DeriveSettled(c)
  \/ \E c \in ConcCallIds : RunSettled(c)
  \/ \E c \in ConcCallIds : FallbackSettled(c)
  \/ \E c \in ConcCallIds : Collect(c)

SpecConc == InitConc /\ [][NextConc]_vars

\* ------------------------------------------------------------------------
\* One client that reads the registry and calls the runtime
\* ------------------------------------------------------------------------

\* The skills this client registers: a direct one and a delegated one.
FrameSkillIds == {"time", "weather"}

FrameInputs == {"what time is it", "Weather forecasts"}

InitFrame ==
  /\ skills = <<>>
  /\ lastOp = NoOp
  /\ held = NoArray
  /\ history = NoHistory
  /\ calls = [c \in CallIds |-> IdleCall]
  /\ now = 0
  /\ agentRunner = TRUE
  /\ scoreCall = ScoreIdle
  /\ defineCall = DefineIdle
  /\ cmdCall = CmdIdle
  /\ routeCall = RouteIdle

NextFrame ==
  \/ \E s \in FrameSkillIds : Register(s)
  \/ \E s \in FrameSkillIds : Remove(Skill[s].name)
  \/ \E s \in FrameSkillIds : Query("get", Skill[s].name)
  \/ \E tag \in QueryTags : Query("filterByTag", tag)
  \/ Query("size", "")
  \/ Query("listSkills", "")
  \/ List
  \/ \E c \in CallIds, api \in {"handle", "handleOrThrow"}, u \in FrameInputs :
        HandleStart(c, api, u, NoMeta)
  \/ \E c \in CallIds : ExecuteSettled(c)
  \/ \E c \in CallIds : ImportSettled(c)
  \/ \E c \in CallIds : DeriveSettled(c)
  \/ \E c \in CallIds : RunSettled(c)
  \/ \E c \in CallIds : FallbackSettled(c)
  \/ \E c \in CallIds : HandleOrThrowSettled(c)
  \/ \E c \in CallIds : Collect(c)

SpecFrame == InitFrame /\ [][NextFrame]_vars

\* ------------------------------------------------------------------------
\* Properties of the router
\* ------------------------------------------------------------------------

\* The score route gives the i-th skill of the list it was called with.
ScoreAt(q, u, i) == scoreSkill(q[i], u, routeIdf(q))

\* All of them at once.
Scores(q, u) == LET idf == routeIdf(q) IN [i \in 1..Len(q) |-> scoreSkill(q[i], u, idf)]

PositionsOf(q, id) == {i \in 1..Len(q) : q[i] = id}

\* C5: routeBest returns the skill of route's first match, which scores
\* highest and is the earliest of the list among those scoring highest; it
\* returns null exactly when no skill of the list scores above zero.
C5_RouteBestIsEarliestMax ==
  routeCall.pc = "done" =>
    LET q == routeCall.skills
        sc == Scores(q, routeCall.input)
        best == routeCall.best
    IN /\ best = (IF routeCall.matches = <<>> THEN NoSkill ELSE routeCall.matches[1].skill)
       /\ (best = NoSkill) <=> (\A i \in 1..Len(q) : ~(sc[i] > 0))
       /\ best # NoSkill =>
            \E i \in PositionsOf(q, best) :
               /\ \A j \in 1..Len(q) : sc[j] <= sc[i]
               /\ \A j \in 1..(i - 1) : sc[j] < sc[i]

\* C5 witness: two skills tie for the highest score and the earlier one is returned.
C5_Witness ==
  /\ routeCall.pc = "done"
  /\ routeCall.skills = <<"git", "echo", "greet">>
  /\ routeCall.input = "hi there"
  /\ routeCall.best = "echo"

\* C6: route's result is in non-increasing score order, and matches of equal
\* score keep the relative order their skills had in the input list.
C6_RouteSortedStable ==
  routeCall.pc \in {"routed", "done"} =>
    LET q == routeCall.skills
        m == routeCall.matches
    IN \A a, b \in 1..Len(m) :
         a < b =>
           /\ m[a].score >= m[b].score
           /\ m[a].score = m[b].score =>
                \A i \in PositionsOf(q, m[a].skill), j \in PositionsOf(q, m[b].skill) : i < j

\* C6 witness: a result with a strict descent followed by a tie.
C6_Witness ==
  /\ routeCall.pc = "routed"
  /\ Len(routeCall.matches) = 3
  /\ routeCall.matches[1].score > routeCall.matches[2].score
  /\ routeCall.matches[2].score = routeCall.matches[3].score

\* C7: no score is negative, every match scores above zero, and a skill of
\* the list is in the result once if it scores above zero and not at all otherwise.
C7_RouteKeepsExactlyPositive ==
  routeCall.pc \in {"routed", "done"} =>
    LET q == routeCall.skills
        sc == Scores(q, routeCall.input)
        m == routeCall.matches
    IN /\ \A i \in 1..Len(q) : sc[i] >= 0
       /\ \A a \in 1..Len(m) : m[a].score > 0
       /\ \A i \in 1..Len(q) :
            Cardinality({a \in 1..Len(m) : m[a].skill = q[i]})
              = (IF sc[i] > 0 THEN 1 ELSE 0)

\* C7 witness: a five-skill call in which a skill whose only match weighs
\* zero is left out while another skill is kept.
C7_Witness ==
  /\ routeCall.pc = "routed"
  /\ Len(routeCall.skills) = 5
  /\ routeCall.input = "git skill"
  /\ Len(routeCall.matches) = 1
  /\ \E i \in 1..5 :
        /\ descMatches("skill", tokensOf(Skill[routeCall.skills[i]].description))
        /\ ScoreAt(routeCall.skills, routeCall.input, i) = 0

\* ------------------------------------------------------------------------
\* Properties of the registry
\* ------------------------------------------------------------------------

\* C8: register raises DuplicateSkillName exactly when the name is taken,
\* and then leaves the registry as it was: same size, same order, and
\* get(name) still the skill registered first.
C8_DuplicateRegisterLeavesRegistry ==
  lastOp.op = "register" =>
    LET name == Skill[lastOp.arg].name
    IN /\ (lastOp.result = "DuplicateSkillName") <=> mapHas(lastOp.before, name)
       /\ lastOp.result = "DuplicateSkillName" =>
            /\ size(skills) = size(lastOp.before)
            /\ list(skills) = list(lastOp.before)
            /\ get(skills, name) = get(lastOp.before, name)
            /\ get(skills, name) # Undefined
            /\ skills = lastOp.before

\* C8 witness: a second object named time was refused and the first is still the one stored.
C8_Witness ==
  /\ lastOp.op = "register"
  /\ lastOp.arg = "time2"
  /\ lastOp.result = "DuplicateSkillName"
  /\ lastOp.before = skills
  /\ size(skills) = 2
  /\ get(skills, "time") = "time"

\* C9: whatever register and remove calls were made, list() holds no two
\* skills of the same name and size is the number of skills in list().
C9_NamesUniqueAndSizeIsCount ==
  LET l == list(skills)
  IN /\ \A i, j \in 1..Len(l) : Skill[l[i]].name = Skill[l[j]].name => i = j
     /\ size(skills) = Len(l)
     /\ Cardinality({Skill[l[i]].name : i \in 1..Len(l)}) = size(skills)

\* C9 witness: three skills are registered, the second object named time
\* among them after the first was removed, and registering the first again
\* has just been refused.
C9_Witness ==
  /\ size(skills) = 3
  /\ get(skills, "time") = "time2"
  /\ lastOp.op = "register"
  /\ lastOp.arg = "time"
  /\ lastOp.result = "DuplicateSkillName"

\* ------------------------------------------------------------------------
\* Properties of the runtime
\* ------------------------------------------------------------------------

\* No skill of the list q scores above zero for u.
NoMatch(q, u) == LET sc == Scores(q, u) IN \A i \in 1..Len(q) : ~(sc[i] > 0)

\* id is the earliest of the skills of q that score highest for u, above zero.
IsBest(q, u, id) ==
  LET sc == Scores(q, u)
  IN \E i \in PositionsOf(q, id) :
        /\ sc[i] > 0
        /\ \A j \in 1..Len(q) : sc[j] <= sc[i]
        /\ \A j \in 1..(i - 1) : sc[j] < sc[i]

\* The step in which caller c calls handle or handleOrThrow.
StartStep(c) == calls[c].pc = "idle" /\ calls'[c].pc # "idle"

\* The step in which the handle call of c settles with an outcome.
ReturnStep(c) == calls[c].result.kind = "pending" /\ calls'[c].result.kind = "result"

\* C1: when the best-scoring skill is a direct one (engine direct or unset),
\* handle calls that skill's execute once, with input = rawInput = the
\* utterance and the caller's meta, and calls no other execute.
C1_DirectExecutesBestOnce ==
  [][\A c \in CallIds :
       LET after == calls'[c]
       IN /\ StartStep(c) =>
               \A id \in SkillIds :
                  IsBest(list(skills), after.input, id) /\ ~isDelegated(id) =>
                     after.skill = id /\ after.pc = "execute"
          /\ (after.pc # "idle" /\ after.skill # NoSkill /\ ~isDelegated(after.skill)) =>
               /\ after.execLog = <<[skill |-> after.skill,
                                     ctx |-> [input |-> after.input,
                                              rawInput |-> after.input,
                                              meta |-> after.meta]]>>
               /\ after.runLog = <<>>
    ]_vars

\* C1 witness: with two skills tied on the utterance, the call has returned
\* after one execute of the earlier one, which got the caller's meta.
C1_Witness ==
  \E c \in CallIds :
     /\ calls[c].pc = "done"
     /\ calls[c].result.kind = "result"
     /\ calls[c].input = "hi there"
     /\ calls[c].meta = "meta1"
     /\ calls[c].skill = "echo"
     /\ Len(calls[c].execLog) = 1
     /\ calls[c].execLog[1].ctx.meta = "meta1"
     /\ list(skills) = <<"echo", "greet">>

\* C2: an outcome handle returns carries the matched skill's registered name
\* and the duration the runtime measured, on the direct, the delegated and
\* the fallback path, whatever the skill or the backend reported.
C2_OutcomeNameAndDurationOverwritten ==
  [][\A c \in CallIds :
       /\ ReturnStep(c) =>
            /\ calls'[c].result.skillName = Skill[calls[c].skill].name
            /\ calls'[c].result.durationMs = now - calls[c].start
            /\ calls'[c].result.durationMs >= 0
       /\ calls'[c].outer.kind = "result" => calls'[c].outer = calls'[c].result
    ]_vars

\* C2 witness: an outcome returned on the fallback path after the backend
\* failed, with a measured duration above zero.
C2_Witness ==
  \E c \in CallIds :
     /\ calls[c].pc = "done"
     /\ calls[c].result.kind = "result"
     /\ Len(calls[c].runLog) = 1
     /\ Len(calls[c].execLog) = 2
     /\ calls[c].result.durationMs > 0
     /\ calls[c].result.skillName = "weather"

\* C3: handle returns null exactly when no registered skill scores above
\* zero, and then without a rejection, an execute call or a backend run.
C3_NullExactlyWhenNoMatch ==
  [][\A c \in CallIds :
       LET after == calls'[c]
       IN /\ StartStep(c) =>
               (NoMatch(list(skills), after.input) <=> after.result = Null)
          /\ (~StartStep(c) /\ calls[c].result.kind # "null") => after.result.kind # "null"
          /\ after.result.kind = "null" =>
               /\ after.skill = NoSkill
               /\ after.execLog = <<>>
               /\ after.runLog = <<>>
    ]_vars

\* C3 witness: null for an utterance that only contains a keyword inside a longer word.
C3_Witness ==
  \E c \in CallIds :
     /\ calls[c].pc = "done"
     /\ calls[c].api = "handle"
     /\ calls[c].result = Null
     /\ calls[c].input = "this thing"
     /\ list(skills) = <<"greet", "time">>

\* C4: handleOrThrow raises NoSkillMatched with the utterance exactly when
\* its handle call returned null, and settles as handle did otherwise.
C4_HandleOrThrowRaisesExactlyOnNull ==
  \A c \in CallIds :
     calls[c].pc = "settled" =>
       /\ (calls[c].outer.kind = "rejected" /\ calls[c].outer.error = "No skill matched input")
            <=> calls[c].result.kind = "null"
       /\ calls[c].result.kind = "null" => calls[c].outer.input = calls[c].input
       /\ calls[c].result.kind # "null" => calls[c].outer = calls[c].result

\* C4 witness: handleOrThrow has raised for an utterance no registered skill matches.
C4_Witness ==
  \E c \in CallIds :
     /\ calls[c].pc = "settled"
     /\ calls[c].outer = NoSkillMatched("this thing")
     /\ size(skills) = 2

\* The call of c is one for a skill with a non-default engine.
Delegating(c) == calls[c].skill # NoSkill /\ isDelegated(calls[c].skill)

\* C10 as claimed: every call for a skill with a non-default engine first
\* calls execute for instructions and then runs the backend.
C10_AlwaysDerivesThenRuns ==
  \A c \in CallIds :
     (Delegating(c) /\ calls[c].pc \in {"done", "settled"}) =>
        /\ calls[c].derive.kind # "none"
        /\ Len(calls[c].runLog) = 1

\* C10: when the agent-runner module loads, a call for a skill with a
\* non-default engine first calls the skill's execute once for instructions,
\* a rejection of which is swallowed, then runs the backend with the
\* utterance as prompt and the non-empty instructions as system prompt; if
\* that run succeeds the output returned is the backend's text.
C10_DerivesThenRunsWhenLoaded ==
  \A c \in CallIds :
     (Delegating(c) /\ agentRunner) =>
        LET call == calls[c]
        IN /\ call.pc = "derive" =>
                /\ Len(call.execLog) = 1
                /\ call.execLog[1].skill = call.skill
                /\ call.execLog[1].ctx.input = call.input
                /\ call.execLog[1].ctx.rawInput = call.input
                /\ call.runLog = <<>>
                /\ call.derive.kind = "none"
           /\ call.pc \in {"run", "fallback", "done", "settled"} =>
                /\ call.derive.kind \in {"returns", "throws"}
                /\ Len(call.runLog) = 1
                /\ call.runLog[1].prompt = call.input
                /\ call.runLog[1].systemPrompt =
                     (IF call.derive.kind = "returns" /\ call.derive.output # ""
                      THEN call.derive.output ELSE Undefined)
                /\ call.execLog[1].skill = call.skill
           /\ call.pc = "run" => Len(call.execLog) = 1
           /\ (call.pc \in {"done", "settled"} /\ Len(call.execLog) = 1) =>
                /\ call.result.kind = "result"
                /\ call.result.output \in {o.text : o \in {r \in RunOutcomes : r.kind = "returns"}}

\* C10 witness: the instruction call was rejected, the backend ran all the
\* same, and its text was returned.
C10_Witness ==
  \E c \in CallIds :
     /\ calls[c].pc = "done"
     /\ calls[c].derive.kind = "throws"
     /\ Len(calls[c].runLog) = 1
     /\ calls[c].runLog[1].systemPrompt = Undefined
     /\ calls[c].result.kind = "result"
     /\ calls[c].result.output = "agent text"

\* The call of c took the outer catch of executeViaAgentRunner: the import
\* or the backend run failed, and skill.execute was called as the fallback.
TookFallback(c) ==
  /\ Delegating(c)
  /\ calls[c].pc \in {"fallback", "done", "settled"}
  /\ Len(calls[c].execLog) = Len(calls[c].runLog) + 1

\* The outputs a skill's execute can return.
ExecuteOutputs == {o.output : o \in {r \in ExecuteOutcomes : r.kind = "returns"}}

\* C11 as claimed: whenever the backend of a delegated skill is unreachable
\* or its run fails, handle returns an outcome of the skill's own execute
\* under the matched skill's name.
C11_FallbackAlwaysReturnsOutcome ==
  \A c \in CallIds :
     (TookFallback(c) /\ calls[c].pc \in {"done", "settled"}) =>
        /\ calls[c].result.kind = "result"
        /\ calls[c].result.skillName = Skill[calls[c].skill].name
        /\ calls[c].result.output \in ExecuteOutputs

\* C11: when the backend of a delegated skill is unreachable or its run
\* fails, handle never passes that failure on: it calls the matched skill's
\* own execute and, if that returns, returns its output under the matched
\* skill's name; if that execute itself rejects, handle rejects with the
\* skill's failure.
C11_FallbackReturnsExecuteOutcomeOrItsFailure ==
  \A c \in CallIds :
     TookFallback(c) =>
        LET call == calls[c]
            last == call.execLog[Len(call.execLog)]
        IN /\ last.skill = call.skill
           /\ last.ctx.input = call.input
           /\ call.pc \in {"done", "settled"} =>
                \/ /\ call.result.kind = "result"
                   /\ call.result.skillName = Skill[call.skill].name
                   /\ call.result.output \in ExecuteOutputs
                \/ call.result = Rejected("execute failed")

\* C11 witness: the backend run failed and handle returned what the skill's
\* own execute produced, under the name of the delegated skill.
C11_Witness ==
  \E c \in CallIds :
     /\ TookFallback(c)
     /\ calls[c].pc = "done"
     /\ calls[c].api = "handle"
     /\ Len(calls[c].runLog) = 1
     /\ calls[c].skill = "git"
     /\ calls[c].result.kind = "result"
     /\ calls[c].result.output = "skill output"
     /\ calls[c].result.skillName = "git"

\* C12 as claimed: the execute call made on the fallback path gets the
\* context the direct path would build (input = rawInput = the utterance,
\* meta = the caller's meta), and the outcome has the output execute
\* returned and the matched skill's name.
C12_FallbackContextAsDirect ==
  \A c \in CallIds :
     TookFallback(c) =>
        LET call == calls[c]
        IN /\ call.execLog[Len(call.execLog)] =
                [skill |-> call.skill, ctx |-> handleContext(call.input, call.meta)]
           /\ call.result.kind = "result" =>
                /\ call.result.output \in ExecuteOutputs
                /\ call.result.skillName = Skill[call.skill].name

\* The engine field of skill id is 'direct' or unset.
DefaultEngine(id) == Skill[id].engine \in {NoEngine, "direct"}

C14_HandleNeverRaises ==
  \A c \in CallIds :
     /\ calls[c].result.kind \in {"pending", "result", "null"}
     /\ calls[c].outer.kind = "rejected" => calls[c].outer = NoSkillMatched(calls[c].input)

\* C14: handle rejects only with the failure of the matched skill's own
\* execute, called on the direct path or as the fallback; a failed load, a
\* failed derivation of context and a failed backend run never reach the
\* caller.  handleOrThrow rejects with that same failure or, exactly when
\* handle returned null, with NoSkillMatched.
C14_OnlyExecuteFailuresReachCaller ==
  \A c \in CallIds :
     LET call == calls[c]
     IN /\ call.result.kind \in {"pending", "result", "null", "rejected"}
        /\ call.result.kind = "rejected" =>
             /\ call.result = Rejected("execute failed")
             /\ call.skill # NoSkill
             /\ ~Delegating(c) \/ TookFallback(c)
             /\ Len(call.execLog) > 0
        /\ (Delegating(c) /\ call.pc \in {"import", "derive", "run", "fallback"}) =>
             call.result = Pending
        /\ call.outer.kind = "rejected" =>
             \/ call.outer = NoSkillMatched(call.input) /\ call.result = Null
             \/ call.outer = call.result /\ call.result = Rejected("execute failed")

\* C14 witness: handleOrThrow has rejected with the failure of a direct
\* skill's execute, which is not NoSkillMatched.
C14_Witness ==
  \E c \in CallIds :
     /\ calls[c].pc = "settled"
     /\ calls[c].api = "handleOrThrow"
     /\ calls[c].skill = "greet"
     /\ calls[c].result = Rejected("execute failed")
     /\ calls[c].outer = Rejected("execute failed")

\* C15: with handle calls overlapping each other and register / remove, a
\* call picks its skill from the registry as it is when handle is called;
\* while the call is suspended, register and remove change neither the
\* call, nor the skill its execute calls go to, nor the name it returns.
C15_SkillFixedAtCall ==
  [][\A c \in ConcCallIds :
       LET before == calls[c]
           after == calls'[c]
       IN /\ StartStep(c) => after.skill = routeBest(list(skills), after.input)
          /\ (before.pc # "idle" /\ after.pc # "idle") =>
               /\ after.skill = before.skill
               /\ after.input = before.input
          /\ after.pc # "idle" =>
               \A i \in 1..Len(after.execLog) : after.execLog[i].skill = after.skill
          /\ ReturnStep(c) => after.result.skillName = Skill[before.skill].name
          /\ skills' # skills => after = before
    ]_vars

\* C15 witness: caller 1 was suspended in the execute of skill time when
\* time was removed and greet registered; it has returned under the name
\* time, while the overlapping call of caller 2 runs greet.
C15_Witness ==
  /\ DOMAIN calls = ConcCallIds
  /\ list(skills) = <<"greet">>
  /\ calls[1].pc = "done"
  /\ calls[1].skill = "time"
  /\ calls[1].result.kind = "result"
  /\ calls[1].result.skillName = "time"
  /\ calls[2].pc = "execute"
  /\ calls[2].skill = "greet"

\* ------------------------------------------------------------------------
\* Registry: order, snapshots, removal and lookup
\* ------------------------------------------------------------------------

\* The names of the skills of the sequence l.
NamesOf(l) == [i \in 1..Len(l) |-> Skill[l[i]].name]

\* C16: after any register / remove sequence, list() holds exactly the
\* skills registered and not removed since, each the object stored by the
\* latest successful registration of its name, in the order of those
\* registrations; listSkills() holds their names in the same order.  A name
\* removed and registered again comes after everything registered before.
C16_ListInRegistrationOrder ==
  LET l == list(skills)
      names == listSkills(skills)
  IN /\ Len(names) = Len(l)
     /\ \A i \in 1..Len(l) :
           /\ names[i] = Skill[l[i]].name
           /\ history.stamp[names[i]] > 0
           /\ history.latest[names[i]] = l[i]
     /\ \A n \in SkillNames :
           history.stamp[n] > 0 => \E i \in 1..Len(l) : names[i] = n
     /\ \A i, j \in 1..Len(l) :
           i < j => history.stamp[names[i]] < history.stamp[names[j]]
     /\ lastOp.op = "list" => lastOp.result = l
     /\ lastOp.op = "listSkills" => lastOp.result = names

\* C16 witness: time was registered first, removed, and registered again
\* after greet; listSkills() has answered with greet before time.
C16_Witness ==
  /\ lastOp.op = "listSkills"
  /\ lastOp.result = <<"greet", "time">>
  /\ list(skills) = <<"greet", "time">>
  /\ history.clock = 3
  /\ history.stamp["greet"] = 2

\* The step is a call on the registry: it leaves a new record in lastOp.
OpStep ==
  ~(/\ lastOp'.op = lastOp.op
    /\ lastOp'.arg = lastOp.arg
    /\ lastOp'.before = lastOp.before
    /\ lastOp'.result = lastOp.result)

\* C17: the array list() returned is a snapshot.  No step changes both the
\* registry and the kept array: register and remove leave the array as it
\* is, and changing the array leaves the registry as it is.  list() answers
\* with the skills registered at the call.
C17_ListIsSnapshot ==
  [][/\ skills' = skills \/ held' = held
     /\ (lastOp'.op = "list" /\ OpStep) =>
          /\ held' = [taken |-> TRUE, items |-> list(skills)]
          /\ lastOp'.result = list(skills)
          /\ skills' = skills
     /\ (held.taken /\ OpStep /\ lastOp'.op \in {"register", "remove"}) =>
          /\ held'.items = held.items
          /\ Len(held'.items) = Len(held.items)
    ]_vars

\* C17 witness: the client keeps the array of time and greet it got from
\* list(), while time has since been removed from the registry.
C17_Witness ==
  /\ held.taken
  /\ held.items = <<"time", "greet">>
  /\ list(skills) = <<"greet">>
  /\ lastOp.op = "remove"
  /\ lastOp.arg = "time"

\* C19: remove(name) answers true and deletes the entry of a registered
\* name, keeping the others in order, and answers false and changes nothing
\* otherwise.  Right after a remove(name): a second remove(name) answers
\* false, get(name) answers undefined, and register of a skill of that name
\* succeeds.
C19_RemoveThenAbsent ==
  [][/\ (lastOp'.op = "remove" /\ OpStep) =>
          /\ lastOp'.before = skills
          /\ lastOp'.result = mapHas(skills, lastOp'.arg)
          /\ ~mapHas(skills', lastOp'.arg)
          /\ list(skills') = SelectSeq(list(skills),
                                       LAMBDA id : Skill[id].name # lastOp'.arg)
          /\ lastOp'.result = FALSE => skills' = skills
          /\ lastOp'.result = TRUE => size(skills') = size(skills) - 1
     /\ (lastOp.op = "remove" /\ OpStep) =>
          /\ (lastOp'.op = "remove" /\ lastOp'.arg = lastOp.arg) =>
               lastOp'.result = FALSE
          /\ (lastOp'.op = "get" /\ lastOp'.arg = lastOp.arg) =>
               lastOp'.result = Undefined
          /\ (lastOp'.op = "register" /\ Skill[lastOp'.arg].name = lastOp.arg) =>
               /\ lastOp'.result = "ok"
               /\ get(skills', lastOp.arg) = lastOp'.arg
    ]_vars

\* C19 witness: remove has answered true for the registered name time and
\* the two other skills are still registered.
C19_Witness ==
  /\ lastOp.op = "remove"
  /\ lastOp.arg = "time"
  /\ lastOp.result = TRUE
  /\ mapHas(lastOp.before, "time")
  /\ ~mapHas(skills, "time")
  /\ size(skills) = 2

\* C20: after any register / remove sequence, get(name) answers with a
\* value and never fails: the skill object stored by the latest successful
\* registration of the name if it has not been removed since (that object,
\* not another of the same name), and undefined otherwise.
C20_GetLatestRegistered ==
  /\ \A n \in RemoveNames :
        /\ get(skills, n) \in SkillIds \cup {Undefined}
        /\ get(skills, n) = (IF n \in SkillNames THEN history.latest[n] ELSE Undefined)
  /\ lastOp.op = "get" =>
        /\ lastOp.before = skills
        /\ lastOp.result = get(skills, lastOp.arg)

\* C20 witness: time was registered, removed, and the other object named
\* time registered; get("time") has answered with that second object.
C20_Witness ==
  /\ lastOp.op = "get"
  /\ lastOp.arg = "time"
  /\ lastOp.result = "time2"
  /\ history.clock = 3
  /\ history.latest["time"] = "time2"
  /\ history.stamp["time"] = 3

\* The methods that only read the registry.
ReadOps == {"get", "list", "filterByTag", "size", "listSkills"}

\* C18: get, list, filterByTag, size and listSkills leave the registry as
\* it was, and so does every step of handle and handleOrThrow, whether the
\* call returns an outcome, returns null or rejects; a step that changes the
\* registered names is a register that succeeded or a remove that answered
\* true.
C18_OnlyRegisterAndRemoveWrite ==
  [][/\ (OpStep /\ lastOp'.op \in ReadOps) =>
          /\ skills' = skills
          /\ listSkills(skills') = listSkills(skills)
          /\ lastOp'.before = skills
     /\ calls' # calls =>
          /\ skills' = skills
          /\ listSkills(skills') = listSkills(skills)
     /\ listSkills(skills') # listSkills(skills) =>
          /\ OpStep
          /\ calls' = calls
          /\ \/ lastOp'.op = "register" /\ lastOp'.result = "ok"
             \/ lastOp'.op = "remove" /\ lastOp'.result = TRUE
     /\ skills' # skills => listSkills(skills') # listSkills(skills)
    ]_vars

\* C18 witness: with time registered, handleOrThrow has raised
\* NoSkillMatched and the client's filterByTag call has answered; time is
\* still the one registered skill.
C18_Witness ==
  \E c \in CallIds :
     /\ calls[c].pc = "settled"
     /\ calls[c].outer = NoSkillMatched("Weather forecasts")
     /\ lastOp.op = "filterByTag"
     /\ lastOp.before = skills
     /\ listSkills(skills) = <<"time">>

\* The positions of list l at which a skill carries tag.
TaggedPositions(l, tag) ==
  {i \in 1..Len(l) : tag \in SeqToSet(Skill[l[i]].tags)}

\* C21: filterByTag(tag) answers with exactly the registered skills that
\* carry tag among their tags, each once, in the order list() has them: the
\* empty sequence when no registered skill carries it.  Asked again on the
\* registry as it is, it answers with the same sequence.
C21_FilterByTagExactInOrder ==
  lastOp.op = "filterByTag" =>
    LET r == lastOp.result
        l == list(skills)
        pos == TaggedPositions(l, lastOp.arg)
    IN /\ lastOp.before = skills
       /\ Len(r) = Cardinality(pos)
       /\ \A k \in 1..Len(r) :
             \E i \in pos :
                /\ l[i] = r[k]
                /\ Cardinality({j \in pos : j < i}) = k - 1
       /\ (pos = {}) => r = <<>>
       /\ filterByTag(skills, lastOp.arg) = r

\* C21 witness: filterByTag("dev") has answered with git and echo in
\* their order of registration, leaving out the untagged time between them.
C21_Witness ==
  /\ lastOp.op = "filterByTag"
  /\ lastOp.arg = "dev"
  /\ lastOp.result = <<"git", "echo">>
  /\ list(skills) = <<"git", "time", "echo">>

\* ------------------------------------------------------------------------
\* The phases of scoreSkill
\* ------------------------------------------------------------------------

\* The sum of a sequence of numbers.
RECURSIVE SumSeq(_)
SumSeq(q) == IF q = <<>> THEN 0 ELSE Head(q) + SumSeq(Tail(q))

\* w occurs in u, letter case apart.
OccursIn(w, u) ==
  LET lw == toLowerCase(w)
      lu == toLowerCase(u)
  IN \E i \in 1..(Len(lu) - Len(lw) + 1) : SubSeq(lu, i, i + Len(lw) - 1) = lw

\* w occurs in u, letter case apart, with no word character next to it on
\* either side.
OccursAsWord(w, u) ==
  LET lw == toLowerCase(w)
      lu == toLowerCase(u)
  IN \E i \in 1..(Len(lu) - Len(lw) + 1) :
        /\ SubSeq(lu, i, i + Len(lw) - 1) = lw
        /\ (i = 1 \/ CharAt(lu, i - 1) \notin WordChars)
        /\ (i + Len(lw) - 1 = Len(lu) \/ CharAt(lu, i + Len(lw)) \notin WordChars)

HasWhitespace(w) == \E i \in 1..Len(w) : CharAt(w, i) \in WhitespaceChars

HasSpace(w) == \E i \in 1..Len(w) : CharAt(w, i) = " "

\* The scored call's skill and the number of its keywords.
Scored == scoreCall.pc = "scored"

ScoredKeywords == Skill[scoreCall.skill].keywords

\* C22 as stated: a keyword containing whitespace matches as a substring, a
\* single-word keyword only as a whole word, and the keyword phase adds 10 for
\* each matching keyword.
C22_WhitespaceKeywordIsPhrase ==
  Scored =>
    scoreCall.keyword =
      KEYWORD_WEIGHT * SCALE *
        Cardinality({k \in 1..Len(ScoredKeywords) :
                       IF HasWhitespace(ScoredKeywords[k])
                       THEN OccursIn(ScoredKeywords[k], scoreCall.input)
                       ELSE OccursAsWord(ScoredKeywords[k], scoreCall.input)})

\* C22: a keyword containing a space character matches as a case-insensitive
\* substring, every other keyword (one whose only whitespace is a tab
\* included) only as a whole word, and the keyword phase adds 10 for each
\* matching keyword, 10 * k for k of them.
C22_SpaceKeywordIsPhrase ==
  Scored =>
    scoreCall.keyword =
      KEYWORD_WEIGHT * SCALE *
        Cardinality({k \in 1..Len(ScoredKeywords) :
                       IF HasSpace(ScoredKeywords[k])
                       THEN OccursIn(ScoredKeywords[k], scoreCall.input)
                       ELSE OccursAsWord(ScoredKeywords[k], scoreCall.input)})

C22_Witness ==
  /\ Scored
  /\ scoreCall.skill = "mail"
  /\ scoreCall.input = "please Send mail"
  /\ scoreCall.idf.present
  /\ scoreCall.keyword = 3 * KEYWORD_WEIGHT * SCALE

\* C23: the score is the sum of the four phases, none of which stops or
\* suppresses another: 20 when the utterance holds the name as a whole word
\* (letter case apart, never as a mere substring), 10 per matching keyword,
\* 5 per tag that occurs as a whole word, and the description sum.
C23_ScoreIsSumOfPhases ==
  Scored =>
    LET tags == Skill[scoreCall.skill].tags
        namePart == IF OccursAsWord(Skill[scoreCall.skill].name, scoreCall.input)
                    THEN NAME_WEIGHT * SCALE ELSE 0
        tagPart == TAG_WEIGHT * SCALE *
                     Cardinality({k \in 1..Len(tags) :
                                    OccursAsWord(tags[k], scoreCall.input)})
    IN scoreCall.score = namePart + scoreCall.keyword + tagPart + scoreCall.desc

C23_Witness ==
  /\ Scored
  /\ scoreCall.skill = "mail"
  /\ scoreCall.input = "please Send mail"
  /\ ~scoreCall.idf.present
  /\ scoreCall.keyword = 3 * KEYWORD_WEIGHT * SCALE
  /\ scoreCall.desc = 2 * SCALE
  /\ scoreCall.score = scoreCall.keyword + scoreCall.desc
                          + (NAME_WEIGHT + 2 * TAG_WEIGHT) * SCALE

\* The shorter of a and b has at least four characters and starts the longer.
PrefixRelated(a, b) ==
  LET sh == IF Len(a) <= Len(b) THEN a ELSE b
      lg == IF Len(a) <= Len(b) THEN b ELSE a
  IN Len(sh) >= FUZZY_MIN_LEN /\ SubSeq(lg, 1, Len(sh)) = sh

\* The utterance token t matches the description of the scored skill.
MatchesDescription(t) ==
  LET descSet == SeqToSet(tokensOf(Skill[scoreCall.skill].description))
  IN t \in descSet \/ \E dw \in descSet : PrefixRelated(t, dw)

\* The description sum when a matching token t adds weight[t].
DescriptionSum(weight) ==
  LET toks == tokensOf(scoreCall.input)
  IN SumSeq([i \in 1..Len(toks) |->
               IF MatchesDescription(toks[i]) THEN weight[toks[i]] ELSE 0])

\* C24 as stated: with weights supplied every matching token has a corpus
\* weight and adds it; without, it adds 1.
C24_MatchAddsCorpusWeight ==
  Scored =>
    LET toks == tokensOf(scoreCall.input)
        idf == scoreCall.idf
        w == [t \in SeqToSet(toks) |->
                IF ~idf.present THEN 1 * SCALE
                ELSE IF t \in DOMAIN idf.map THEN idf.map[t] ELSE 0]
    IN /\ idf.present =>
            \A i \in 1..Len(toks) :
               MatchesDescription(toks[i]) => toks[i] \in DOMAIN idf.map
       /\ scoreCall.desc = DescriptionSum(w)

\* C24: every surviving utterance token, duplicates counted one by one,
\* matches exactly when it is a description token or in a prefix relation of
\* shorter side >= 4 with one; a matching token adds its corpus weight when
\* weights are supplied and hold the token, and 1 when no weights are
\* supplied or the supplied weights lack the token; other tokens add nothing.
C24_MatchAddsCorpusWeightOrOne ==
  Scored =>
    LET idf == scoreCall.idf
        w == [t \in SeqToSet(tokensOf(scoreCall.input)) |->
                IF idf.present /\ t \in DOMAIN idf.map THEN idf.map[t] ELSE 1 * SCALE]
    IN scoreCall.desc = DescriptionSum(w)

C24_Witness ==
  /\ Scored
  /\ scoreCall.skill = "weather"
  /\ scoreCall.input = "Weather forecasts"
  /\ scoreCall.idf.present
  /\ "weather" \in DOMAIN scoreCall.idf.map
  /\ "forecasts" \notin DOMAIN scoreCall.idf.map
  /\ scoreCall.desc = scoreCall.idf.map["weather"] + 1 * SCALE

\* ------------------------------------------------------------------------
\* Tokens every description shares
\* ------------------------------------------------------------------------

\* The tokens that occur in the description of every skill of q.
CommonTokens(q) ==
  {t \in UNION {SeqToSet(tokensOf(Skill[q[i]].description)) : i \in 1..Len(q)} :
     \A i \in 1..Len(q) : t \in SeqToSet(tokensOf(Skill[q[i]].description))}

\* The utterance tokens that match the description of skill id.
MatchingTokens(id, u) ==
  {t \in SeqToSet(tokensOf(u)) : descMatches(t, tokensOf(Skill[id].description))}

\* Skill q[i] matches u, and only through tokens every description of q holds.
OnlyCommonMatch(q, u, i) ==
  LET lower == lowerOf(u)
  IN /\ nameScore(q[i], lower) = 0
     /\ keywordScore(Skill[q[i]].keywords, lower) = 0
     /\ tagScore(Skill[q[i]].tags, lower) = 0
     /\ MatchingTokens(q[i], u) # {}
     /\ MatchingTokens(q[i], u) \subseteq CommonTokens(q)

\* C29: with five or more skills a token of every description weighs
\* ln(N/N) = 0, a skill matching only through such tokens is absent from
\* route's result, and routeBest returns null when no skill matches
\* otherwise; with fewer than five skills the same skill is in the result.
C29_CommonTokenMatchDropped ==
  routeCall.pc = "done" =>
    LET q == routeCall.skills
        u == routeCall.input
        inResult(id) == \E a \in 1..Len(routeCall.matches) : routeCall.matches[a].skill = id
    IN /\ \A i \in 1..Len(q) :
            OnlyCommonMatch(q, u, i) =>
              IF Len(q) >= IDF_MIN_SKILLS
              THEN /\ \A t \in MatchingTokens(q[i], u) : buildIdf(q)[t] = 0
                   /\ ~inResult(q[i])
              ELSE inResult(q[i])
       /\ (/\ Len(q) >= IDF_MIN_SKILLS
           /\ \A i \in 1..Len(q) :
                 OnlyCommonMatch(q, u, i) \/ scoreSkill(q[i], u, NoIdf) = 0)
            => routeCall.best = NoSkill

\* C29 witness: five skills, none of them git, all matching "git skill"
\* through the token skill alone, and nothing is returned.
C29_Witness ==
  /\ routeCall.pc = "done"
  /\ Len(routeCall.skills) = 5
  /\ routeCall.input = "git skill"
  /\ \A i \in 1..5 : OnlyCommonMatch(routeCall.skills, routeCall.input, i)
  /\ routeCall.matches = <<>>
  /\ routeCall.best = NoSkill

\* The same skills without the fifth: every one of them is in the result.
C29_WitnessFewer ==
  /\ routeCall.pc = "done"
  /\ Len(routeCall.skills) = 4
  /\ routeCall.input = "git skill"
  /\ \A i \in 1..4 : OnlyCommonMatch(routeCall.skills, routeCall.input, i)
  /\ Len(routeCall.matches) = 4

\* ------------------------------------------------------------------------
\* Weights across calls
\* ------------------------------------------------------------------------

\* The weights of a ranking pass over q: none (every token weighs 1) below
\* five skills, ln(N/df) over the descriptions of q from five on.
WeightsOver(q) ==
  IF Len(q) < 5 THEN NoIdf
  ELSE SomeIdf([t \in UNION {SeqToSet(tokensOf(Skill[q[i]].description)) : i \in 1..Len(q)} |->
                  LnScaled[<<Len(q),
                             Cardinality({i \in 1..Len(q) :
                                t \in SeqToSet(tokensOf(Skill[q[i]].description))})>>]])

\* C25: a handle call ranks with weights that depend on the skills registered
\* at the call and on nothing else: every token weighs 1 below five skills,
\* ln(N/df) over exactly their descriptions from five on, whatever earlier
\* calls ranked with, so a register or remove between two calls shows in the
\* ranking of the second.
C25_WeightsFromCurrentSkills ==
  [][\A c \in CallIds :
       StartStep(c) =>
         LET q == list(skills)
             r == sortMatches(collectMatches(q, calls'[c].input, WeightsOver(q)))
         IN /\ calls'[c].skill = (IF r = <<>> THEN NoSkill ELSE r[1].skill)
            /\ routeCall'.skills = q
            /\ routeCall'.matches = r]_vars

\* C25 witness: "git skill" finds git alone among five skills, and after git
\* is removed the next call ranks the four others, each through the token
\* skill at weight 1.
C25_Witness ==
  /\ routeCall.pc = "done"
  /\ routeCall.earlier.taken
  /\ routeCall.earlier.input = "git skill"
  /\ routeCall.input = "git skill"
  /\ Len(routeCall.earlier.skills) = 5
  /\ Len(routeCall.earlier.matches) = 1
  /\ routeCall.earlier.matches[1].skill = "git"
  /\ Len(routeCall.skills) = 4
  /\ Len(routeCall.matches) = 4
  /\ routeCall.best = "time"
  /\ \A a \in 1..4 : routeCall.matches[a].score = 1 * SCALE

\* ------------------------------------------------------------------------
\* The backend of a delegated call
\* ------------------------------------------------------------------------

\* C26 as stated: every backend run of a call is on the backend that the
\* matched skill's engine names.
C26_BackendIsEngine ==
  \A c \in CallIds :
    \A k \in 1..Len(calls[c].runLog) :
       calls[c].runLog[k].backend = Skill[calls[c].skill].engine

\* C26: a call runs a backend only for a skill whose engine is set and not
\* direct; the backend is codex when the engine is codex and claude-code for
\* every other such engine value, claude-code itself included, and no other
\* backend is run in that call.
C26_BackendIsCodexOrClaudeCode ==
  \A c \in CallIds :
    \A k \in 1..Len(calls[c].runLog) :
       LET engine == Skill[calls[c].skill].engine
       IN /\ engine \notin {NoEngine, "", "direct"}
          /\ calls[c].runLog[k].backend =
               (IF engine = "codex" THEN "codex" ELSE "claude-code")

\* C26 witness: the skill with engine codex has been run on codex.
C26_Witness ==
  \E c \in CallIds :
    /\ calls[c].skill = "git"
    /\ Len(calls[c].runLog) = 1
    /\ calls[c].runLog[1].backend = "codex"
    /\ calls[c].result.kind = "result"

\* ------------------------------------------------------------------------
\* Validation of definitions
\* ------------------------------------------------------------------------

\* C28: defineSkill raises when the name is empty, the description is empty
\* or execute is missing, and otherwise returns the definition it was given;
\* register accepts any definition whose name is not taken, whatever its
\* name, description and execute are, and refuses exactly the taken names.
C28_DefineSkillValidatesRegisterDoesNot ==
  /\ defineCall.pc = "settled" =>
       LET def == defineCall.def
       IN IF \/ Skill[def.skill].name = ""
             \/ Skill[def.skill].description = ""
             \/ def.execute = Undefined
          THEN defineCall.result.kind = "throws"
          ELSE /\ defineCall.result.kind = "returns"
               /\ defineCall.result.value = def
  /\ lastOp.op = "register" =>
       LET name == Skill[defineCall.registered.skill].name
       IN /\ lastOp.arg = defineCall.registered.skill
          /\ (lastOp.result = "DuplicateSkillName") <=> mapHas(lastOp.before, name)
          /\ lastOp.result = "DuplicateSkillName" => skills = lastOp.before
          /\ lastOp.result # "DuplicateSkillName" =>
               /\ lastOp.result = "ok"
               /\ list(skills) = Append(list(lastOp.before), lastOp.arg)

\* C28 witness: defineSkill refused the nameless definition, and the
\* registry took a nameless definition without execute.
C28_Witness ==
  /\ defineCall.pc = "settled"
  /\ defineCall.def = [skill |-> "noname", execute |-> "function"]
  /\ defineCall.result.kind = "throws"
  /\ defineCall.registered = [skill |-> "noname", execute |-> Undefined]
  /\ lastOp.op = "register"
  /\ lastOp.result = "ok"
  /\ get(skills, "") = "noname"

\* defineSkill returned the complete definition it was given.
C28_WitnessReturned ==
  /\ defineCall.pc = "settled"
  /\ defineCall.def = [skill |-> "time", execute |-> "function"]
  /\ defineCall.result = [kind |-> "returns", value |-> defineCall.def]

\* ------------------------------------------------------------------------
\* The allowed list of the run-command skill
\* ------------------------------------------------------------------------

\* The words of s: its longest stretches free of whitespace, left to right.
WordsOf(s) ==
  LET starts == {i \in 1..Len(s) : ~IsSpaceAt(s, i) /\ (i = 1 \/ IsSpaceAt(s, i - 1))}
      endOf(i) == CHOOSE e \in i..Len(s) :
                     /\ \A j \in i..e : ~IsSpaceAt(s, j)
                     /\ (e = Len(s) \/ IsSpaceAt(s, e + 1))
      nth(k) == CHOOSE i \in starts : Cardinality({j \in starts : j < i}) = k - 1
  IN [k \in 1..Cardinality(starts) |-> SubSeq(s, nth(k), endOf(nth(k)))]

\* The words of the input once a leading run, execute, exec or cmd that is
\* followed by whitespace is taken off.
CommandWords(input) ==
  LET w == WordsOf(input)
  IN IF /\ w # <<>>
        /\ toLowerCase(w[1]) \in SeqToSet(PREFIX_WORDS)
        /\ (Len(w) > 1 \/ IsSpaceAt(input, Len(input)))
     THEN Tail(w) ELSE w

\* C30: the skill spawns a process exactly when the first word of the input,
\* an optional leading run, execute, exec or cmd left aside, is one of
\* ALLOWED_COMMANDS, and then that command with the remaining words as its
\* arguments; for every other input it spawns nothing and returns output
\* that says why; a spawned command that fails or is killed at the timeout
\* is reported in the returned output, never raised.
C30_SpawnsOnlyAllowedCommands ==
  cmdCall.pc \in {"spawned", "done"} =>
    LET w == CommandWords(cmdCall.input)
        isAllowed == w # <<>> /\ w[1] \in ALLOWED_COMMANDS
    IN /\ Len(cmdCall.spawnLog) <= 1
       /\ (cmdCall.spawnLog # <<>>) <=> isAllowed
       /\ cmdCall.spawnLog # <<>> =>
            cmdCall.spawnLog[1] = [bin |-> w[1], args |-> Tail(w)]
       /\ cmdCall.pc = "done" =>
            /\ cmdCall.result.kind = "returns"
            /\ ~isAllowed =>
                 \/ w = <<>> /\ startsWith(cmdCall.result.output, "Could not parse")
                 \/ w # <<>> /\ startsWith(cmdCall.result.output,
                                           "Command \"" \o w[1] \o "\" is not in the allowed list")
            /\ (isAllowed /\ cmdCall.outcome.kind = "rejects") =>
                 /\ startsWith(cmdCall.result.output, "Command failed: " \o w[1])
                 /\ includes(cmdCall.result.output, cmdCall.outcome.message)

\* C30 witness: "Execute git status" spawned git, which was killed at the
\* timeout, and the call returned output saying so.
C30_Witness ==
  /\ cmdCall.pc = "done"
  /\ cmdCall.input = "Execute git status"
  /\ cmdCall.spawnLog = <<[bin |-> "git", args |-> <<"status">>]>>
  /\ cmdCall.outcome = [kind |-> "rejects", message |-> "killed at timeout"]
  /\ cmdCall.result.kind = "returns"

\* "run rm -rf x" spawned nothing and was answered with a refusal.
C30_WitnessRefused ==
  /\ cmdCall.pc = "done"
  /\ cmdCall.input = "run rm -rf x"
  /\ cmdCall.spawnLog = <<>>
  /\ cmdCall.result.kind = "returns"

\* ------------------------------------------------------------------------
\* The run behind the output of a loaded skill
\* ------------------------------------------------------------------------

\* The handle call of c returned the text of a backend run, which is then
\* the last run the call made.
ReturnedRunText(c) ==
  /\ calls[c].pc = "done"
  /\ calls[c].skill \in LoadedSkillIds
  /\ agentRunner
  /\ calls[c].result.kind = "result"
  /\ calls[c].runLog # <<>>
  /\ \E outcome \in RunOutcomes :
        outcome.kind = "returns" /\ calls[c].result.output = outcome.text

\* C27 as stated: the run whose text a handle call returns for a loaded
\* skill with an engine got the SKILL.md body as its system prompt and the
\* user's input as its prompt.
C27_ReturnedRunGotBody ==
  \A c \in CallIds :
    ReturnedRunText(c) =>
      LET run == calls[c].runLog[Len(calls[c].runLog)]
      IN /\ run.prompt = calls[c].input
         /\ run.systemPrompt = bodyOf(calls[c].skill)

====
